---------------------------- MODULE Spec2Model ----------------------------
(***************************************************************************)
(* A model of the protocol engine of brine:                                *)
(*   - the packet transport framer (backend_stevenarella/codec.rs):        *)
(*     decode_packet, encode_packet, the result conversions and the        *)
(*     codec-context reactions of MinecraftClientCodec;                    *)
(*   - the session handshake orchestrator (backend_stevenarella/login.rs): *)
(*     the per-tick systems gated by LoginState.                           *)
(* Bytes are naturals 0..255, byte strings are sequences of bytes.         *)
(***************************************************************************)
EXTENDS Integers, Sequences, FiniteSets, TLC

VARIABLES
    \* ---- codec context (MinecraftClientCodec) ----
    protocol_version,        \* i32
    protocol_state,          \* MinecraftProtocolState
    compression_threshold,   \* Option<i32>: <<>> is None, <<t>> is Some(t)
    \* ---- inbound side (Decode::decode driven by a framed reader) ----
    rbuf,                    \* bytes received and not yet consumed
    dres,                    \* result of the last Decode::decode call
    dpre,                    \* context and buffer that call started from
    \* ---- outbound side (Encode::encode) ----
    eres,                    \* result of the last Encode::encode call
    epre,                    \* context, packet and buffer size of that call
    \* ---- session handshake orchestrator ----
    login_state,             \* State<LoginState>
    login_resource,          \* LoginResource {username, server_addr}
    connects,                \* addresses handed to NetworkResource::connect
    outbound,                \* packets handed to CodecWriter::send by the
                             \* login exchange, in order
    session_events,          \* Disconnect / LoginSuccess messages written by
                             \* the login exchange
    ka_unread,               \* packets still buffered that the cursor of
                             \* respond_to_keep_alive_packets has not passed
    tick,                    \* what the last tick saw and did
    script_pos,              \* progress of the scripted login scenario
    \* ---- chunk section bitmask decoder ----
    chunk_bytes,             \* the chunkData bytes of a map-chunk packet
    chunk_layout,            \* how chunk_bytes was put together
    chunk_mask,              \* result of compute_section_bitmask on it
    chunk_passes,            \* the passes of its loop, in order
    \* ---- AlwaysSuccessfulLoginPlugin ----
    server_state,            \* State<ServerState>
    server_logins,           \* Login messages written so far
    server_success,          \* LoginSuccess messages written so far
    \* ---- configuration and tick heartbeat of the Play phase ----
    config_state,            \* ConfigurationState
    tick_state,              \* TickEndState
    elapsed_secs,            \* Time::elapsed_secs_f64, in half seconds
    config_unread,           \* packets still buffered that the cursor of
                             \* handle_configuration_start has not passed
    tick_end_times,          \* elapsed_secs of every tick-end sent so far
    config_exchange,         \* configuration-scoped packets sent in the
                             \* configuration exchange in progress
    config_tick,             \* what the last tick of these systems saw
    \* ---- hosting session layer (LoginPlugin) ----
    game_state,              \* State<GameState>
    login_info,              \* LoginInfo
    login_events,            \* Login messages written by initiate_login
    app_exit,                \* AppExit messages written so far
    game_unread,             \* Disconnect messages still buffered when the
                             \* Play instance of handle_disconnect first runs
    game_tick                \* what the last tick of the session layer saw

codec_vars == <<protocol_version, protocol_state, compression_threshold>>
decode_vars == <<rbuf, dres, dpre>>
encode_vars == <<eres, epre>>
login_vars == <<login_state, login_resource, connects, outbound,
                session_events, ka_unread, tick, script_pos>>
chunk_vars == <<chunk_bytes, chunk_layout, chunk_mask, chunk_passes>>
server_vars == <<server_state, server_logins, server_success>>
config_vars == <<config_state, tick_state, elapsed_secs, config_unread,
                 tick_end_times, config_exchange, config_tick>>
game_vars == <<game_state, login_info, login_events, app_exit, game_unread,
               game_tick>>
vars == <<codec_vars, decode_vars, encode_vars, login_vars, chunk_vars,
          server_vars, config_vars, game_vars>>

(***************************************************************************)
(* Bounds of the model.                                                    *)
(***************************************************************************)
MaxBufLen == 4          \* longest inbound buffer that grew byte by byte
MaxOutBuf == 8          \* largest output buffer handed to encode

(***************************************************************************)
(* Generic helpers.                                                        *)
(***************************************************************************)
Slice(s, from, to) == \* bytes at 0-based positions from .. to-1
    IF to <= from THEN <<>> ELSE SubSeq(s, from + 1, to)

Pow2(n) == 2 ^ n

RECURSIVE Reverse(_)
Reverse(s) == IF s = <<>> THEN <<>> ELSE Append(Reverse(Tail(s)), Head(s))

RECURSIVE SeqsUpTo(_, _)
SeqsUpTo(S, n) ==
    IF n = 0 THEN {<<>>}
    ELSE LET shorter == SeqsUpTo(S, n - 1)
         IN  shorter \cup {Append(s, b) : s \in shorter, b \in S}

Some(x) == <<x>>
None == <<>>
is_some(o) == o # <<>>

(***************************************************************************)
(* Primitive wire types.  A read returns [st, val, pos]: st is "ok",       *)
(* "eof" (the io error UnexpectedEof of a read past the end of the cursor) *)
(* "big" (the malformed-varint error) or "panic"; pos is the cursor        *)
(* position after the read.                                                *)
(***************************************************************************)
MaxVarIntBytes == 5

ROk(v, p) == [st |-> "ok", val |-> v, pos |-> p]
RFail(why, p) == [st |-> why, val |-> 0, pos |-> p]

\* VarInt::read_from: 7 data bits per byte, low group first, a set top bit
\* continues; the value is accumulated in a u32 and cast to i32, so the
\* fifth byte contributes its low four bits, the highest as the sign.
RECURSIVE VarIntReadLoop(_, _, _, _)
VarIntReadLoop(buf, pos, size, val) ==
    IF pos >= Len(buf) THEN RFail("eof", pos)
    ELSE LET b == buf[pos + 1]
             part == IF size < 4 THEN (b % 128) * Pow2(7 * size)
                     ELSE IF size = 4
                          THEN (IF b % 16 >= 8 THEN (b % 16) - 16 ELSE b % 16)
                               * Pow2(28)
                          ELSE 0
             v2 == val + part
         IN  IF size + 1 > MaxVarIntBytes THEN RFail("big", pos + 1)
             ELSE IF b < 128 THEN ROk(v2, pos + 1)
             ELSE VarIntReadLoop(buf, pos + 1, size + 1, v2)

VarIntRead(buf, pos) == VarIntReadLoop(buf, pos, 0, 0)

\* VarInt::write_to: the i32 is cast to u32 and written low group first.
RECURSIVE VarIntGroups(_, _)
VarIntGroups(v, i) == \* v >= 0: the groups of a non-negative value
    IF v < 128 THEN <<v>>
    ELSE <<128 + (v % 128)>> \o VarIntGroups(v \div 128, i + 1)

VarIntBytes(v) ==
    IF v >= 0 THEN VarIntGroups(v, 0)
    ELSE \* a negative i32 has bit 31 set: always five bytes
         [i \in 1..5 |->
            IF i < 5 THEN 128 + ((v \div Pow2(7 * (i - 1))) % 128)
            ELSE (v \div Pow2(28)) % 16]

\* A big-endian u16 (ReadBytesExt::read_u16 / write_u16).
U16Read(buf, pos) ==
    IF pos + 2 > Len(buf) THEN RFail("eof", pos)
    ELSE ROk(buf[pos + 1] * 256 + buf[pos + 2], pos + 2)

U16Bytes(v) == <<(v \div 256) % 256, v % 256>>

\* PrefixedBytes<VarInt>: a varint count, then that many bytes (read_exact).
\* A negative count is cast to usize and the allocation aborts.
PrefixedBytesTake(buf, n) ==
    IF n.st # "ok" THEN RFail(n.st, n.pos)
    ELSE IF n.val < 0 THEN RFail("panic", n.pos)
    ELSE IF n.pos + n.val > Len(buf) THEN RFail("eof", n.pos)
    ELSE [st |-> "ok", val |-> Slice(buf, n.pos, n.pos + n.val),
          pos |-> n.pos + n.val]

PrefixedBytesRead(buf, pos) == PrefixedBytesTake(buf, VarIntRead(buf, pos))

PrefixedBytesBytes(data) == VarIntBytes(Len(data)) \o data

(***************************************************************************)
(* Packets.  A packet is [kind, name, f]: a Known packet carries its       *)
(* variant name and its field values (each a sequence of integers: a       *)
(* number is a one-element sequence, a string its bytes); an Unknown       *)
(* packet carries <<packet_id>> and the raw body.                          *)
(***************************************************************************)
Known(name, fields) == [kind |-> "Known", name |-> name, f |-> fields]
Unknown(packet_id, body) ==
    [kind |-> "Unknown", name |-> "Unknown", f |-> <<<<packet_id>>, body>>]
NoPacket == [kind |-> "None", name |-> "None", f |-> <<>>]

ProtocolStates == {"Handshaking", "Status", "Login", "Play"}

HANDSHAKE_STATUS_NEXT == 1
HANDSHAKE_LOGIN_NEXT == 2

\* The packet shapes of the dispatch table the model covers:
\* (connection state, direction, numeric id) -> variant and field layout.
PacketTable == {
    [name |-> "Handshake", state |-> "Handshaking", dir |-> "Serverbound",
     id |-> 0, layout |-> <<"VarInt", "Bytes", "U16", "VarInt">>],
    [name |-> "StatusRequest", state |-> "Status", dir |-> "Serverbound",
     id |-> 0, layout |-> <<>>],
    [name |-> "LoginStart", state |-> "Login", dir |-> "Serverbound",
     id |-> 0, layout |-> <<"Bytes">>],
    [name |-> "StatusResponse", state |-> "Status", dir |-> "Clientbound",
     id |-> 0, layout |-> <<"Bytes">>],
    [name |-> "LoginDisconnect", state |-> "Login", dir |-> "Clientbound",
     id |-> 0, layout |-> <<"Bytes">>],
    [name |-> "LoginSuccess_String", state |-> "Login", dir |-> "Clientbound",
     id |-> 2, layout |-> <<"Bytes", "Bytes">>],
    \* the variant of later protocol versions; the table does not vary with
    \* the version, so it has an id of its own here
    [name |-> "LoginSuccess_UUID", state |-> "Login", dir |-> "Clientbound",
     id |-> 4, layout |-> <<"Bytes", "Bytes">>],
    [name |-> "SetInitialCompression", state |-> "Login", dir |-> "Clientbound",
     id |-> 3, layout |-> <<"VarInt">>],
    [name |-> "SetCompression", state |-> "Play", dir |-> "Clientbound",
     id |-> 3, layout |-> <<"VarInt">>],
    [name |-> "KeepAliveClientbound", state |-> "Play", dir |-> "Clientbound",
     id |-> 2, layout |-> <<"VarInt">>] }

ShapeOf(name) == CHOOSE e \in PacketTable : e.name = name

\* packet.packet_id(protocol_version)
packet_id(packet, version) == ShapeOf(packet.name).id

\* Reading / writing the fields of a layout, in order.
ReadField(ty, buf, pos) ==
    CASE ty = "VarInt" -> VarIntRead(buf, pos)
      [] ty = "U16" -> U16Read(buf, pos)
      [] OTHER -> PrefixedBytesRead(buf, pos)

RECURSIVE ReadFields(_, _, _, _)
RECURSIVE ReadFieldsNext(_, _, _, _)
ReadFields(layout, buf, pos, acc) ==
    IF layout = <<>> THEN [st |-> "ok", val |-> acc, pos |-> pos]
    ELSE ReadFieldsNext(layout, buf, acc, ReadField(Head(layout), buf, pos))

ReadFieldsNext(layout, buf, acc, r) ==
    IF r.st # "ok" THEN [st |-> r.st, val |-> <<>>, pos |-> r.pos]
    ELSE ReadFields(Tail(layout), buf, r.pos,
                    Append(acc, IF Head(layout) = "Bytes" THEN r.val ELSE <<r.val>>))

RECURSIVE WriteFields(_, _)
WriteFields(layout, fields) ==
    IF layout = <<>> THEN <<>>
    ELSE LET ty == Head(layout)
             v == Head(fields)
         IN  (CASE ty = "VarInt" -> VarIntBytes(v[1])
                [] ty = "U16" -> U16Bytes(v[1])
                [] OTHER -> PrefixedBytesBytes(v))
             \o WriteFields(Tail(layout), Tail(fields))

\* packet::packet_by_id: Ok(Some(packet)), Ok(None) for an id that is not in
\* the table, or the error of a field read.
Dispatch(state, direction, id) ==
    {e \in PacketTable : e.state = state /\ e.dir = direction /\ e.id = id}

packet_read(name, r) ==
    IF r.st = "ok"
    THEN [st |-> "ok", packet |-> Known(name, r.val), pos |-> r.pos]
    ELSE [st |-> r.st, packet |-> NoPacket, pos |-> r.pos]

packet_read_shape(e, buf) ==
    packet_read(e.name, ReadFields(e.layout, buf, 0, <<>>))

packet_by_id(version, state, direction, id, buf) ==
    IF Dispatch(state, direction, id) = {}
    THEN [st |-> "ok", packet |-> NoPacket, pos |-> 0]
    ELSE packet_read_shape(CHOOSE e \in Dispatch(state, direction, id) : TRUE, buf)

\* Packet::write: the serialized body of a Known packet.
packet_write(packet) == WriteFields(ShapeOf(packet.name).layout, packet.f)

(***************************************************************************)
(* zlib, abstracted: a stream is a header byte followed by the data in     *)
(* reverse order.  Inflating a stream that does not start with the header  *)
(* is the io error InvalidInput (corrupt stream); an empty input inflates  *)
(* to nothing.                                                             *)
(***************************************************************************)
ZlibHeader == 120

ZlibEncode(data) == <<ZlibHeader>> \o Reverse(data)

ZlibDecode(z) ==
    IF z = <<>> THEN [st |-> "ok", val |-> <<>>]
    ELSE IF z[1] # ZlibHeader THEN [st |-> "invalid", val |-> <<>>]
    ELSE [st |-> "ok", val |-> Reverse(Tail(z))]

(***************************************************************************)
(* MinecraftCodec::decode_packet.  A Result<(usize, Packet), Error> is     *)
(* [tag, kind, n, packet]: tag "Ok", "IOError" (kind is the io error       *)
(* kind), "Err" (any other Error) or "Panic".                              *)
(***************************************************************************)
ROkPacket(n, p) == [tag |-> "Ok", kind |-> "", n |-> n, packet |-> p]
RIOError(kind) == [tag |-> "IOError", kind |-> kind, n |-> 0, packet |-> NoPacket]
RErr == [tag |-> "Err", kind |-> "", n |-> 0, packet |-> NoPacket]
RPanic == [tag |-> "Panic", kind |-> "", n |-> 0, packet |-> NoPacket]

\* The `?` on a primitive read that failed.
ReadError(st) ==
    CASE st = "eof" -> RIOError("UnexpectedEof")
      [] st = "panic" -> RPanic
      [] OTHER -> RErr

\* decode_dispatched that refuses an id the table does not have.
decode_dispatched_unknown_is_error(id, buf, r) ==
    IF r.st # "ok" THEN ReadError(r.st)
    ELSE IF r.packet = NoPacket THEN RErr
    ELSE ROkPacket(0, r.packet)

\* decode_dispatched that refuses a Known packet with bytes left over.
decode_dispatched_leftover_is_error(id, buf, r) ==
    IF r.st # "ok" THEN ReadError(r.st)
    ELSE IF r.packet = NoPacket THEN ROkPacket(0, Unknown(id, buf))
    ELSE IF r.pos # Len(buf) THEN RErr
    ELSE ROkPacket(0, r.packet)

\* Some(packet) is Known, None is Unknown with the whole slice as its body;
\* leftover bytes of a Known packet are only logged.
decode_dispatched(id, buf, r) ==
    IF r.st # "ok" THEN ReadError(r.st)
    ELSE IF r.packet = NoPacket THEN ROkPacket(0, Unknown(id, buf))
    ELSE ROkPacket(0, r.packet)

decode_packet_with_id(version, state, direction, id, buf) ==
    decode_dispatched(id, buf, packet_by_id(version, state, direction, id, buf))

\* decode_packet, from its last step to its first.
\* Ok((total_packet_bytes, packet)), or the error of the packet's own decode.
decode_packet_finish(total_packet_bytes, p) ==
    IF p.tag # "Ok" THEN p ELSE ROkPacket(total_packet_bytes, p.packet)

\* i is the packet id read from the head of body_bytes.
decode_packet_body(version, state, direction, body_bytes, total_packet_bytes, i) ==
    IF i.st # "ok" THEN ReadError(i.st)
    ELSE decode_packet_finish(total_packet_bytes,
             decode_packet_with_id(version, state, direction, i.val,
                                   Slice(body_bytes, i.pos, Len(body_bytes))))

decode_packet_id(version, state, direction, body_bytes, total_packet_bytes) ==
    decode_packet_body(version, state, direction, body_bytes,
                       total_packet_bytes, VarIntRead(body_bytes, 0))

\* z is what read_to_end of the ZlibDecoder gave; a length that differs from
\* data_length is only logged.
decode_packet_inflated(version, state, direction, total_packet_bytes, z) ==
    IF z.st # "ok" THEN RIOError("InvalidInput")
    ELSE decode_packet_id(version, state, direction, z.val, total_packet_bytes)

\* decode_packet_compressed that inflates whatever follows data_length, a
\* zero data_length included.
decode_packet_compressed_always_inflates(version, state, direction, packet_body, total_packet_bytes, d) ==
    IF d.st # "ok" THEN ReadError(d.st)
    ELSE IF d.val < 0 THEN RPanic
    ELSE decode_packet_inflated(version, state, direction, total_packet_bytes,
             ZlibDecode(Slice(packet_body, d.pos, Len(packet_body))))

\* Compression is on: d is the data_length varint read from packet_body.
\* Vec::with_capacity of a negative data_length cast to usize aborts.
decode_packet_compressed(version, state, direction, packet_body, total_packet_bytes, d) ==
    IF d.st # "ok" THEN ReadError(d.st)
    ELSE IF d.val = 0
    THEN decode_packet_id(version, state, direction,
                          Slice(packet_body, d.pos, Len(packet_body)),
                          total_packet_bytes)
    ELSE IF d.val < 0 THEN RPanic
    ELSE decode_packet_inflated(version, state, direction, total_packet_bytes,
             ZlibDecode(Slice(packet_body, d.pos, Len(packet_body))))

decode_packet_payload(version, state, direction, threshold, packet_body, total_packet_bytes) ==
    IF is_some(threshold)
    THEN decode_packet_compressed(version, state, direction, packet_body,
                                  total_packet_bytes, VarIntRead(packet_body, 0))
    ELSE decode_packet_id(version, state, direction, packet_body,
                          total_packet_bytes)

\* decode_packet_frame with total_packet_bytes taken to be `length` alone,
\* the bytes of the length field left out of the count.
decode_packet_frame_without_length_field(version, state, direction, threshold, buf, l) ==
    IF l.st # "ok" THEN ReadError(l.st)
    ELSE IF l.val < 0
    THEN (IF l.pos + l.val >= 0 THEN RPanic ELSE RIOError("UnexpectedEof"))
    ELSE IF Len(buf) < l.pos + l.val THEN RIOError("UnexpectedEof")
    ELSE decode_packet_payload(version, state, direction, threshold,
                               Slice(buf, l.pos, l.pos + l.val), l.val)

\* l is the length varint read from the head of buf: l.val is `length`,
\* l.pos is `length_length`.  `length as usize` of a negative i32 is above
\* 2^63: the sum wraps (or overflows) for -length <= length_length and the
\* slice aborts; otherwise no buffer is that long.
decode_packet_frame(version, state, direction, threshold, buf, l) ==
    IF l.st # "ok" THEN ReadError(l.st)
    ELSE IF l.val < 0
    THEN (IF l.pos + l.val >= 0 THEN RPanic ELSE RIOError("UnexpectedEof"))
    ELSE IF Len(buf) < l.pos + l.val THEN RIOError("UnexpectedEof")
    ELSE decode_packet_payload(version, state, direction, threshold,
                               Slice(buf, l.pos, l.pos + l.val), l.pos + l.val)

decode_packet(version, state, direction, threshold, buf) ==
    decode_packet_frame(version, state, direction, threshold, buf,
                        VarIntRead(buf, 0))

\* into_decode_result without the UnexpectedEof case: every error is fatal.
into_decode_result_all_errors_fatal(r) ==
    CASE r.tag = "Ok" ->
            [kind |-> "Ok", n |-> r.n, packet |-> r.packet]
      [] r.tag = "Panic" ->
            [kind |-> "Panic", n |-> 0, packet |-> NoPacket]
      [] OTHER ->
            [kind |-> "Err", n |-> 0, packet |-> NoPacket]

\* IntoDecodeResult::into_decode_result: (bytes consumed, DecodeResult).
into_decode_result(r) ==
    CASE r.tag = "Ok" ->
            [kind |-> "Ok", n |-> r.n, packet |-> r.packet]
      [] r.tag = "IOError" /\ r.kind = "UnexpectedEof" ->
            [kind |-> "UnexpectedEnd", n |-> 0, packet |-> NoPacket]
      [] r.tag = "Panic" ->
            [kind |-> "Panic", n |-> 0, packet |-> NoPacket]
      [] OTHER ->
            [kind |-> "Err", n |-> 0, packet |-> NoPacket]

(***************************************************************************)
(* The codec context and MinecraftClientCodec::react_to_packet.            *)
(***************************************************************************)
Ctx(version, state, threshold) ==
    [version |-> version, state |-> state, threshold |-> threshold]

\* The status document, abstracted: the first byte tells what the string
\* parses to (no JSON / no "version" / no integer "protocol" / a version
\* object whose protocol number is the second byte).
JsonNoVersion == 1
JsonNoProtocol == 2
JsonVersion == 3

\* get_server_protocol_version that reads a missing version as 0.
get_server_protocol_version_or_zero(status) ==
    IF Len(status) >= 2 /\ status[1] = JsonVersion
    THEN [ok |-> TRUE, val |-> status[2]]
    ELSE [ok |-> TRUE, val |-> 0]

get_server_protocol_version(status) ==
    IF status = <<>> \/ status[1] \notin {JsonNoVersion, JsonNoProtocol, JsonVersion}
    THEN [ok |-> FALSE, val |-> 0]          \* serde_json::from_str fails
    ELSE IF status[1] = JsonNoVersion THEN [ok |-> FALSE, val |-> 0]
    ELSE IF status[1] = JsonNoProtocol \/ Len(status) < 2
         THEN [ok |-> FALSE, val |-> 0]
    ELSE [ok |-> TRUE, val |-> status[2]]

\* react_to_packet that follows a Handshake only from the Handshaking state.
react_to_packet_from_handshaking_only(ctx, packet) ==
    CASE packet.kind = "Known" /\ packet.name = "Handshake" ->
            LET next == packet.f[4][1]
                reset == [ctx EXCEPT !.threshold = None]
            IN  IF ctx.state # "Handshaking" THEN reset
                ELSE IF next = HANDSHAKE_STATUS_NEXT
                THEN [reset EXCEPT !.state = "Status"]
                ELSE IF next = HANDSHAKE_LOGIN_NEXT
                THEN [reset EXCEPT !.state = "Login"]
                ELSE reset
      [] packet.kind = "Known" /\ packet.name = "StatusResponse" ->
            LET v == get_server_protocol_version(packet.f[1])
            IN  IF v.ok THEN [ctx EXCEPT !.version = v.val] ELSE ctx
      [] packet.kind = "Known" /\ packet.name = "SetCompression" ->
            [ctx EXCEPT !.threshold = Some(packet.f[1][1])]
      [] packet.kind = "Known" /\ packet.name = "SetInitialCompression" ->
            [ctx EXCEPT !.threshold = Some(packet.f[1][1])]
      [] packet.kind = "Known"
         /\ packet.name \in {"LoginSuccess_String", "LoginSuccess_UUID"} ->
            [ctx EXCEPT !.state = "Play"]
      [] OTHER -> ctx

\* react_to_packet that keeps the compression threshold over a Handshake.
react_to_packet_without_reset(ctx, packet) ==
    IF packet.kind = "Known" /\ packet.name = "Handshake"
    THEN IF packet.f[4][1] = HANDSHAKE_STATUS_NEXT
         THEN [ctx EXCEPT !.state = "Status"]
         ELSE IF packet.f[4][1] = HANDSHAKE_LOGIN_NEXT
         THEN [ctx EXCEPT !.state = "Login"]
         ELSE ctx
    ELSE react_to_packet_from_handshaking_only(ctx, packet)

\* The Handshake arm, for the variants that follow.
react_to_handshake(ctx, next) ==
    IF next = HANDSHAKE_STATUS_NEXT
    THEN [ctx EXCEPT !.threshold = None, !.state = "Status"]
    ELSE IF next = HANDSHAKE_LOGIN_NEXT
    THEN [ctx EXCEPT !.threshold = None, !.state = "Login"]
    ELSE [ctx EXCEPT !.threshold = None]

\* react_to_packet that takes a negative threshold for "no compression".
react_to_packet_negative_threshold_disables(ctx, packet) ==
    IF packet.kind = "Known" /\ packet.name = "Handshake"
    THEN react_to_handshake(ctx, packet.f[4][1])
    ELSE IF packet.kind = "Known"
            /\ packet.name \in {"SetCompression", "SetInitialCompression"}
            /\ packet.f[1][1] < 0
    THEN [ctx EXCEPT !.threshold = None]
    ELSE react_to_packet_from_handshaking_only(ctx, packet)

\* react_to_packet that knows only the String variant of login success.
react_to_packet_string_variant_only(ctx, packet) ==
    IF packet.kind = "Known" /\ packet.name = "Handshake"
    THEN react_to_handshake(ctx, packet.f[4][1])
    ELSE IF packet.kind = "Known" /\ packet.name = "LoginSuccess_UUID"
    THEN ctx
    ELSE react_to_packet_from_handshaking_only(ctx, packet)

\* react_to_packet that moves to Login on a LoginStart.
react_to_packet_login_start_enters_login(ctx, packet) ==
    IF packet.kind = "Known" /\ packet.name = "Handshake"
    THEN react_to_handshake(ctx, packet.f[4][1])
    ELSE IF packet.kind = "Known" /\ packet.name = "LoginStart"
    THEN [ctx EXCEPT !.state = "Login"]
    ELSE react_to_packet_from_handshaking_only(ctx, packet)

react_to_packet(ctx, packet) ==
    CASE packet.kind = "Known" /\ packet.name = "Handshake" ->
            LET next == packet.f[4][1]
                reset == [ctx EXCEPT !.threshold = None]
            IN  IF next = HANDSHAKE_STATUS_NEXT
                THEN [reset EXCEPT !.state = "Status"]
                ELSE IF next = HANDSHAKE_LOGIN_NEXT
                THEN [reset EXCEPT !.state = "Login"]
                ELSE reset
      [] packet.kind = "Known" /\ packet.name = "StatusResponse" ->
            LET v == get_server_protocol_version(packet.f[1])
            IN  IF v.ok THEN [ctx EXCEPT !.version = v.val] ELSE ctx
      [] packet.kind = "Known" /\ packet.name = "SetCompression" ->
            [ctx EXCEPT !.threshold = Some(packet.f[1][1])]
      [] packet.kind = "Known" /\ packet.name = "SetInitialCompression" ->
            [ctx EXCEPT !.threshold = Some(packet.f[1][1])]
      [] packet.kind = "Known"
         /\ packet.name \in {"LoginSuccess_String", "LoginSuccess_UUID"} ->
            [ctx EXCEPT !.state = "Play"]
      [] OTHER -> ctx

(***************************************************************************)
(* MinecraftCodec::encode_packet.  The Result<usize, Error> is             *)
(* [tag, kind, n, written]: written is what the call put into the output   *)
(* buffer, from its start.                                                 *)
(***************************************************************************)
\* encode_packet_id_and_data that writes the id after the body.
encode_packet_id_and_data_body_first(version, packet) ==
    packet_write(packet) \o VarIntBytes(packet_id(packet, version))

encode_packet_id_and_data(version, packet) ==
    VarIntBytes(packet_id(packet, version)) \o packet_write(packet)

\* encode_payload that compresses but marks the payload as uncompressed.
encode_payload_unmarked(id_and_data, threshold) ==
    IF is_some(threshold)
    THEN IF threshold[1] >= 0 /\ Len(id_and_data) >= threshold[1]
         THEN VarIntBytes(0) \o ZlibEncode(id_and_data)
         ELSE VarIntBytes(0) \o id_and_data
    ELSE id_and_data

\* encode_payload that compresses only strictly above the threshold.
encode_payload_strictly_above(id_and_data, threshold) ==
    IF is_some(threshold)
    THEN IF threshold[1] >= 0 /\ Len(id_and_data) > threshold[1]
         THEN VarIntBytes(Len(id_and_data)) \o ZlibEncode(id_and_data)
         ELSE VarIntBytes(0) \o id_and_data
    ELSE id_and_data

\* The bytes after the frame's length prefix.
encode_payload(id_and_data, threshold) ==
    IF is_some(threshold)
    THEN IF threshold[1] >= 0 /\ Len(id_and_data) >= threshold[1]
         THEN VarIntBytes(Len(id_and_data)) \o ZlibEncode(id_and_data)
         ELSE VarIntBytes(0) \o id_and_data
    ELSE id_and_data

\* prefix is the varint of payload.len(); write_u8 on a full
\* Cursor<&mut [u8]> is the io error WriteZero.
encode_packet_frame(buflen, payload, prefix) ==
    IF buflen < Len(prefix)
    THEN [tag |-> "IOError", kind |-> "WriteZero", n |-> 0,
          written |-> Slice(prefix, 0, buflen)]
    ELSE IF buflen < Len(prefix) + Len(payload)
    THEN [tag |-> "IOError", kind |-> "UnexpectedEof", n |-> 0,
          written |-> prefix]
    ELSE [tag |-> "Ok", kind |-> "", n |-> Len(prefix) + Len(payload),
          written |-> prefix \o payload]

encode_packet_payload(buflen, payload) ==
    encode_packet_frame(buflen, payload, VarIntBytes(Len(payload)))

encode_packet(version, packet, buflen, threshold) ==
    IF packet.kind # "Known"
    THEN [tag |-> "Err", kind |-> "", n |-> 0, written |-> <<>>]
    ELSE encode_packet_payload(buflen,
             encode_payload(encode_packet_id_and_data(version, packet), threshold))

\* into_encode_result that asks for a larger buffer on every error.
into_encode_result_every_error_overflows(r, buflen) ==
    IF r.tag = "Ok" THEN [kind |-> "Ok", n |-> r.n, written |-> r.written]
    ELSE [kind |-> "Overflow", n |-> buflen * 2, written |-> r.written]

\* IntoEncodeResult::into_encode_result: n is the byte count of Ok and the
\* new size of Overflow.
into_encode_result(r, buflen) ==
    CASE r.tag = "Ok" ->
            [kind |-> "Ok", n |-> r.n, written |-> r.written]
      [] r.tag = "IOError" /\ r.kind = "UnexpectedEof" ->
            [kind |-> "Overflow", n |-> buflen * 2, written |-> r.written]
      [] OTHER ->
            [kind |-> "Err", n |-> 0, written |-> r.written]

(***************************************************************************)
(* The codec as a state machine: bytes arrive, Decode::decode runs on the  *)
(* buffered bytes and the reader drops what it consumed; Encode::encode    *)
(* runs on a packet and an output buffer of some size.                     *)
(***************************************************************************)
ByteAlphabet == {0, 1, 2, 3, 120, 128}
DefaultVersion == 498
InitThresholds == {None, Some(-1), Some(0), Some(2)}

CurCtx == Ctx(protocol_version, protocol_state, compression_threshold)
SetCtx(c) ==
    /\ protocol_version' = c.version
    /\ protocol_state' = c.state
    /\ compression_threshold' = c.threshold

NoCtx == Ctx(0, "Handshaking", None)
NoDecode == [kind |-> "None", n |-> 0, packet |-> NoPacket]
NoDecodePre == [ctx |-> NoCtx, buf |-> <<>>]
NoEncode == [kind |-> "None", n |-> 0, written |-> <<>>]
NoEncodePre == [ctx |-> NoCtx, packet |-> NoPacket, buflen |-> 0,
                version |-> 0, threshold |-> None]

\* The transport hands over one more byte.
Receive(b) ==
    /\ dres.kind \notin {"Err", "Panic"}
    /\ Len(rbuf) < MaxBufLen
    /\ rbuf' = Append(rbuf, b)
    /\ dres' = NoDecode
    /\ dpre' = NoDecodePre
    /\ UNCHANGED <<codec_vars, encode_vars, login_vars, chunk_vars, server_vars,
                   config_vars, game_vars>>

\* The transport hands over a whole frame the server wrote: a status
\* response, framed under the compression setting in force.
StatusDocuments == {<<JsonNoProtocol>>, <<JsonVersion, 2>>}
ServerPackets == {Known("StatusResponse", <<doc>>) : doc \in StatusDocuments}

ServerFrame(packet) ==
    encode_packet(protocol_version, packet, MaxOutBuf, compression_threshold)

ReceiveFrame(packet) ==
    /\ dres.kind \notin {"Err", "Panic"}
    /\ rbuf = <<>>
    /\ ServerFrame(packet).tag = "Ok"
    /\ rbuf' = ServerFrame(packet).written
    /\ dres' = NoDecode
    /\ dpre' = NoDecodePre
    /\ UNCHANGED <<codec_vars, encode_vars, login_vars, chunk_vars, server_vars,
                   config_vars, game_vars>>

\* Decode::decode without the reaction to the packet.
DecodeDone_without_reaction(result, out) ==
    /\ SetCtx(CurCtx)
    /\ dres' = out
    /\ dpre' = [ctx |-> CurCtx, buf |-> rbuf]
    /\ rbuf' = Slice(rbuf, out.n, Len(rbuf))

\* Decode::decode, then the reader advances by the bytes consumed.
DecodeDone(result, out) ==
    /\ SetCtx(IF result.tag = "Ok"
              THEN react_to_packet(CurCtx, result.packet)
              ELSE CurCtx)
    /\ dres' = out
    /\ dpre' = [ctx |-> CurCtx, buf |-> rbuf]
    /\ rbuf' = Slice(rbuf, out.n, Len(rbuf))

DecodeWith(result) == DecodeDone(result, into_decode_result(result))

Decode ==
    /\ dres.kind \notin {"Err", "Panic"}
    /\ DecodeWith(decode_packet(protocol_version, protocol_state, "Clientbound",
                                compression_threshold, rbuf))
    /\ UNCHANGED <<encode_vars, login_vars, chunk_vars, server_vars,
                   config_vars, game_vars>>

\* Encode::encode: the reaction runs first, then the packet is framed under
\* the context the reaction left.
EncodablePackets ==
    {Known("Handshake", <<<<v>>, <<>>, <<1>>, <<n>>>>) : v \in {0}, n \in 0..3}
    \cup {Known("StatusRequest", <<>>)}
    \cup {Known("LoginStart", <<u>>) : u \in {<<>>, <<1, 2>>}}
    \cup {Known("StatusResponse", <<s>>) : s \in {<<>>, <<3, 2>>}}
    \cup {Known("SetInitialCompression", <<<<t>>>>) : t \in {-1, 1}}
    \cup {Known("SetCompression", <<<<t>>>>) : t \in {-1, 1}}
    \cup {Known("LoginSuccess_String", <<<<1>>, <<>>>>)}
    \cup {Known("LoginSuccess_UUID", <<<<1>>, <<>>>>)}
    \cup {Unknown(1, <<1>>)}

OutBufSizes == 0..MaxOutBuf

EncodeWith(packet, buflen, c) ==
    /\ SetCtx(c)
    /\ eres' = into_encode_result(
                   encode_packet(c.version, packet, buflen, c.threshold), buflen)
    /\ epre' = [ctx |-> CurCtx, packet |-> packet, buflen |-> buflen,
                version |-> c.version, threshold |-> c.threshold]

Encode(packet, buflen) ==
    /\ EncodeWith(packet, buflen, react_to_packet(CurCtx, packet))
    /\ UNCHANGED <<decode_vars, login_vars, chunk_vars, server_vars,
                   config_vars, game_vars>>

(***************************************************************************)
(* The session handshake orchestrator (login.rs).  One action per tick and *)
(* phase: the systems whose run condition is the current LoginState run    *)
(* over the batch their readers yield, and the NextState they set is the   *)
(* LoginState of the next tick.                                            *)
(***************************************************************************)
MaxBatch == 2           \* most messages a reader yields in one tick

LoginStates == {"Idle", "StatusAwaitingConnect", "StatusAwaitingResponse",
                "StatusAwaitingDisconnect", "LoginAwaitingConnect",
                "LoginAwaitingSuccess", "Play"}

\* NetworkEvent<ProtocolCodec>
ConnectFailedEvents == {"ConnectFailed(refused)", "ConnectFailed(timeout)"}
NetworkEvents == {"Connected", "Disconnected"} \cup ConnectFailedEvents

\* serverbound::Login requests
Login(server, username) == [server |-> server, username |-> username]
LoginRequests == {Login("srvA", "Alice"), Login("srvB", "Bob")}

\* Packets as the orchestrator sees them.  Inbound: [name, str, num];
\* outbound: [name, ver, next, str].
InPacket(name, str, num) == [name |-> name, str |-> str, num |-> num]
OutPacket(name, ver, next, str) ==
    [name |-> name, ver |-> ver, next |-> next, str |-> str]

\* The str of a status response is its JSON document.
InboundPackets == {
    InPacket("StatusClientboundServerInfo", <<JsonNoProtocol>>, 0),
    InPacket("StatusClientboundServerInfo", <<JsonVersion, 2>>, 0),
    InPacket("LoginClientboundSuccess", "Alice", 4660),
    InPacket("LoginClientboundSuccess", "Bob", 22136),
    InPacket("LoginClientboundDisconnect", "banned", 0),
    InPacket("StatusClientboundPing", "", 0) }

\* clientbound::Disconnect and clientbound::LoginSuccess session events:
\* [type, reason, username, uuid]; a reason is <<format prefix, argument>>.
DisconnectEvent(prefix, arg) ==
    [type |-> "Disconnect", reason |-> <<prefix, arg>>, username |-> "", uuid |-> 0]
LoginSuccessEvent(username, uuid) ==
    [type |-> "LoginSuccess", reason |-> <<"", "">>, username |-> username,
     uuid |-> uuid]

\* The uuid is serialized to bytes and rebuilt by Uuid::from_bytes (two
\* bytes stand for the sixteen).
uuid_write_to(u) == <<(u \div 256) % 256, u % 256>>
Uuid_from_bytes(b) == b[1] * 256 + b[2]

\* make_handshake_packet that writes the codec's initial version.
make_handshake_packet_initial_version(version, next_state) ==
    OutPacket("HandshakingServerboundSetProtocol", DefaultVersion, next_state, "")

make_handshake_packet(version, next_state) ==
    OutPacket("HandshakingServerboundSetProtocol", version, next_state, "")

make_login_start_packet(version, username) ==
    OutPacket("LoginServerboundLoginStart", 0, 0, username)

\* The packet of the codec's match arms that a packet of the orchestrator's
\* match arms is: the Handshake, the status response and the login success
\* go by two names.
codec_packet(p) ==
    CASE p.name = "HandshakingServerboundSetProtocol" ->
            Known("Handshake", <<<<p.ver>>, <<>>, <<0>>, <<p.next>>>>)
      [] p.name = "StatusClientboundServerInfo" -> Known("StatusResponse", <<p.str>>)
      [] p.name = "LoginClientboundSuccess" -> Known("LoginSuccess_String", <<>>)
      [] OTHER -> Known(p.name, <<>>)

\* The codec context after the codec has decoded or encoded the packets,
\* one after the other.
RECURSIVE react_to_packets(_, _)
react_to_packets(ctx, packets) ==
    IF packets = <<>> THEN ctx
    ELSE react_to_packets(react_to_packet(ctx, codec_packet(Head(packets))),
                          Tail(packets))

\* What one system does in one run: packets sent, session events written,
\* connections opened, and the NextState it set ("" when it set none).
Effect(sent, emitted, opened, next) ==
    [sent |-> sent, emitted |-> emitted, opened |-> opened, next |-> next]
NoEffect == Effect(<<>>, <<>>, <<>>, "")

FirstIndex(s, S) == \* index of the first element of s in S, 0 when none
    IF \E i \in 1..Len(s) : s[i] \in S
    THEN CHOOSE i \in 1..Len(s) :
             s[i] \in S /\ \A j \in 1..(i - 1) : s[j] \notin S
    ELSE 0

handle_connection_error(events) ==
    LET i == FirstIndex(events, ConnectFailedEvents)
    IN  IF i = 0 THEN NoEffect
        ELSE Effect(<<>>, <<DisconnectEvent("Connection failed: ", events[i])>>,
                    <<>>, "Idle")

await_login_event_then_connect(logins) ==
    IF logins = <<>> THEN NoEffect
    ELSE LET login == logins[Len(logins)]
         IN  Effect(<<>>, <<>>, <<login.server>>, "StatusAwaitingConnect")

\* The status connect handler with its two sends swapped.
await_connect_then_send_status_request_and_handshake(events, version) ==
    IF \E i \in 1..Len(events) : events[i] = "Connected"
    THEN Effect(<<OutPacket("StatusServerboundPingStart", 0, 0, ""),
                  make_handshake_packet(version, HANDSHAKE_STATUS_NEXT)>>,
                <<>>, <<>>, "StatusAwaitingResponse")
    ELSE NoEffect

await_connect_then_send_handshake_and_status_request(events, version) ==
    IF \E i \in 1..Len(events) : events[i] = "Connected"
    THEN Effect(<<make_handshake_packet(version, HANDSHAKE_STATUS_NEXT),
                  OutPacket("StatusServerboundPingStart", 0, 0, "")>>,
                <<>>, <<>>, "StatusAwaitingResponse")
    ELSE NoEffect

await_response_then_send_status_ping(packets) ==
    IF \E i \in 1..Len(packets) : packets[i].name = "StatusClientboundServerInfo"
    THEN Effect(<<OutPacket("StatusServerboundPing", 0, 0, "")>>,
                <<>>, <<>>, "StatusAwaitingDisconnect")
    ELSE NoEffect

\* The reconnect handler moving straight on to LoginAwaitingSuccess.
await_disconnect_then_connect_for_login_skipping_connect(events, server_addr) ==
    LET n == Cardinality({i \in 1..Len(events) : events[i] = "Disconnected"})
    IN  IF n = 0 THEN NoEffect
        ELSE Effect(<<>>, <<>>, [i \in 1..n |-> server_addr],
                    "LoginAwaitingSuccess")

\* No break: every Disconnected event of the batch opens a connection.
await_disconnect_then_connect_for_login(events, server_addr) ==
    LET n == Cardinality({i \in 1..Len(events) : events[i] = "Disconnected"})
    IN  IF n = 0 THEN NoEffect
        ELSE Effect(<<>>, <<>>, [i \in 1..n |-> server_addr],
                    "LoginAwaitingConnect")

\* The login connect handler without its break: one pair per Connected event.
await_connect_then_send_handshake_and_login_start_per_event(events, version, username) ==
    LET n == Cardinality({i \in 1..Len(events) : events[i] = "Connected"})
    IN  IF n = 0 THEN NoEffect
        ELSE Effect([i \in 1..(2 * n) |->
                        IF i % 2 = 1
                        THEN make_handshake_packet(version, HANDSHAKE_LOGIN_NEXT)
                        ELSE make_login_start_packet(version, username)],
                    <<>>, <<>>, "LoginAwaitingSuccess")

await_connect_then_send_handshake_and_login_start(events, version, username) ==
    IF \E i \in 1..Len(events) : events[i] = "Connected"
    THEN Effect(<<make_handshake_packet(version, HANDSHAKE_LOGIN_NEXT),
                  make_login_start_packet(version, username)>>,
                <<>>, <<>>, "LoginAwaitingSuccess")
    ELSE NoEffect

\* await_login_success whose on_login_success leaves the NextState unset.
await_login_success_without_play(packets) ==
    LET i == FirstIndex([k \in 1..Len(packets) |-> packets[k].name],
                        {"LoginClientboundSuccess", "LoginClientboundDisconnect"})
    IN  IF i = 0 THEN NoEffect
        ELSE IF packets[i].name = "LoginClientboundSuccess"
        THEN Effect(<<OutPacket("LoginServerboundLoginAcknowledged", 0, 0, "")>>,
                    <<LoginSuccessEvent(packets[i].str,
                          Uuid_from_bytes(uuid_write_to(packets[i].num)))>>,
                    <<>>, "")
        ELSE Effect(<<>>,
                    <<DisconnectEvent("Login disconnect: ", packets[i].str)>>,
                    <<>>, "Idle")

\* await_login_success that acknowledges a login disconnect as well.
await_login_success_acknowledging_disconnect(packets) ==
    LET i == FirstIndex([k \in 1..Len(packets) |-> packets[k].name],
                        {"LoginClientboundSuccess", "LoginClientboundDisconnect"})
    IN  IF i = 0 THEN NoEffect
        ELSE IF packets[i].name = "LoginClientboundSuccess"
        THEN Effect(<<OutPacket("LoginServerboundLoginAcknowledged", 0, 0, "")>>,
                    <<LoginSuccessEvent(packets[i].str,
                          Uuid_from_bytes(uuid_write_to(packets[i].num)))>>,
                    <<>>, "Play")
        ELSE Effect(<<OutPacket("LoginServerboundLoginAcknowledged", 0, 0, "")>>,
                    <<DisconnectEvent("Login disconnect: ", packets[i].str)>>,
                    <<>>, "Idle")

\* await_login_success that acts on the last packet of the batch it knows.
await_login_success_last_packet_wins(packets) ==
    LET j == FirstIndex(Reverse([k \in 1..Len(packets) |-> packets[k].name]),
                        {"LoginClientboundSuccess", "LoginClientboundDisconnect"})
        i == IF j = 0 THEN 0 ELSE Len(packets) + 1 - j
    IN  IF i = 0 THEN NoEffect
        ELSE IF packets[i].name = "LoginClientboundSuccess"
        THEN Effect(<<OutPacket("LoginServerboundLoginAcknowledged", 0, 0, "")>>,
                    <<LoginSuccessEvent(packets[i].str,
                          Uuid_from_bytes(uuid_write_to(packets[i].num)))>>,
                    <<>>, "Play")
        ELSE Effect(<<>>,
                    <<DisconnectEvent("Login disconnect: ", packets[i].str)>>,
                    <<>>, "Idle")

await_login_success(packets) ==
    LET i == FirstIndex([k \in 1..Len(packets) |-> packets[k].name],
                        {"LoginClientboundSuccess", "LoginClientboundDisconnect"})
    IN  IF i = 0 THEN NoEffect
        ELSE IF packets[i].name = "LoginClientboundSuccess"
        THEN Effect(<<OutPacket("LoginServerboundLoginAcknowledged", 0, 0, "")>>,
                    <<LoginSuccessEvent(packets[i].str,
                          Uuid_from_bytes(uuid_write_to(packets[i].num)))>>,
                    <<>>, "Play")
        ELSE Effect(<<>>,
                    <<DisconnectEvent("Login disconnect: ", packets[i].str)>>,
                    <<>>, "Idle")

\* Two systems of one tuple run in the order the scheduler picks; the
\* NextState set last is the one that takes effect.
Then(first, second) ==
    Effect(first.sent \o second.sent, first.emitted \o second.emitted,
           first.opened \o second.opened,
           IF second.next # "" THEN second.next ELSE first.next)

SystemOrders == {"error_first", "connect_first"}
InOrder(order, error, connect) ==
    IF order = "error_first" THEN Then(error, connect) ELSE Then(connect, error)

NoResource == [username |-> "", server_addr |-> ""]
NoTick == [phase |-> "", logins |-> <<>>, events |-> <<>>, packets |-> <<>>,
           order |-> "", sent |-> <<>>, emitted |-> <<>>, opened |-> <<>>,
           expired |-> <<>>]

\* The scripted login scenario: the inputs, one per tick, after the request.
Script == <<"Connected", "StatusClientboundServerInfo", "Disconnected",
            "Connected", "LoginClientboundSuccess">>
ScriptStep(names) ==
    IF names = <<>> \/ script_pos \notin 1..Len(Script) THEN script_pos
    ELSE IF names = <<Script[script_pos]>> THEN script_pos + 1
    ELSE 0

\* The bookkeeping shared by the ticks of an attempt in progress.  The codec
\* has decoded the packets the tick reads, and encodes the packets it sends.
Advance(eff, events, packets, order) ==
    /\ SetCtx(react_to_packets(react_to_packets(CurCtx, packets), eff.sent))
    /\ login_state' = IF eff.next = "" THEN login_state ELSE eff.next
    /\ outbound' = outbound \o eff.sent
    /\ session_events' = session_events \o eff.emitted
    /\ connects' = connects \o eff.opened
    /\ tick' = [phase |-> login_state, logins |-> <<>>, events |-> events,
                packets |-> packets, order |-> order, sent |-> eff.sent,
                emitted |-> eff.emitted, opened |-> eff.opened,
                expired |-> <<>>]
    /\ ka_unread' = <<>>
    /\ script_pos' = ScriptStep(events \o [i \in 1..Len(packets) |-> packets[i].name])
    /\ UNCHANGED <<login_resource, decode_vars, encode_vars,
                   chunk_vars, server_vars,
                   config_vars, game_vars>>

EventBatches == SeqsUpTo(NetworkEvents, MaxBatch)
PacketBatches == SeqsUpTo(InboundPackets, MaxBatch)
LoginBatches == SeqsUpTo(LoginRequests, MaxBatch)
\* Network events in a phase none of whose systems reads them: nothing or
\* one event stands for every batch.
UnreadEventBatches == {<<>>} \cup {<<e>> : e \in NetworkEvents}
\* What a tick of a phase that reads packets only brings: packets, or an
\* event on its own (next to packets it changes nothing, being unread).
PacketTickInputs ==
    {<<<<>>, packets>> : packets \in PacketBatches}
        \cup {<<events, <<>>>> : events \in UnreadEventBatches}
\* Packets of the Play phase; a batch does not repeat a packet (each
\* keepalive carries its own id, and a server kicks once).
PlayPackets == {
    InPacket("ConfigurationClientboundKeepAlive", "", 1),
    InPacket("ConfigurationClientboundPing", "", 2),
    InPacket("PlayClientboundKeepAlive", "", 3),
    InPacket("PlayClientboundKickDisconnect", "kicked", 0),
    InPacket("ConfigurationClientboundDisconnect", "closed", 0) }
PlayPacketBatches ==
    {b \in SeqsUpTo(PlayPackets, MaxBatch) :
        \A i, j \in 1..Len(b) : i # j => b[i] # b[j]}

\* respond_to_keep_alive_packets: the response to a keepalive or ping packet
\* carries its id.
KeepAliveNames == {"ConfigurationClientboundKeepAlive",
                   "ConfigurationClientboundPing", "PlayClientboundKeepAlive"}
keep_alive_response(packet) ==
    OutPacket(CASE packet.name = "ConfigurationClientboundKeepAlive" ->
                       "ConfigurationServerboundKeepAlive"
                [] packet.name = "ConfigurationClientboundPing" ->
                       "ConfigurationServerboundPong"
                [] OTHER -> "PlayServerboundKeepAlive",
              0, packet.num, "")

\* The loop sends the response to the first such packet the reader yields
\* and breaks; i is that packet's index, 0 when there is none.
respond_to_keep_alive_packets(visible) ==
    LET i == FirstIndex([k \in 1..Len(visible) |-> visible[k].name],
                        KeepAliveNames)
    IN  IF i = 0 THEN NoEffect
        ELSE Effect(<<keep_alive_response(visible[i])>>, <<>>, <<>>, "")

\* The packets the reader has not passed when the loop ends: those after
\* the break, none when the loop ran to the end.
keep_alive_unread(visible) ==
    LET i == FirstIndex([k \in 1..Len(visible) |-> visible[k].name],
                        KeepAliveNames)
    IN  IF i = 0 THEN <<>> ELSE SubSeq(visible, i + 1, Len(visible))

\* handle_disconnect that also sets the phase to Idle.
handle_disconnect_returning_to_idle(packets) ==
    LET kicks == SelectSeq(packets, LAMBDA p :
                     p.name \in {"PlayClientboundKickDisconnect",
                                 "ConfigurationClientboundDisconnect"})
    IN  Effect(<<>>,
               [i \in 1..Len(kicks) |-> DisconnectEvent("{:?}", kicks[i].str)],
               <<>>, IF kicks = <<>> THEN "" ELSE "Idle")

\* handle_disconnect: a Disconnect event, its reason the Debug format of the
\* packet's, for every kick or configuration disconnect the reader yields;
\* the loop runs to the end of the batch.
handle_disconnect(packets) ==
    LET kicks == SelectSeq(packets, LAMBDA p :
                     p.name \in {"PlayClientboundKickDisconnect",
                                 "ConfigurationClientboundDisconnect"})
    IN  Effect(<<>>,
               [i \in 1..Len(kicks) |-> DisconnectEvent("{:?}", kicks[i].str)],
               <<>>, "")

KeepAlivesOf(packets) == SelectSeq(packets, LAMBDA p : p.name \in KeepAliveNames)

\* Play: the keepalive responder reads what it left unread and then the
\* packets of this tick.  What it leaves unread of the older packets is
\* gone at the next buffer swap; what it leaves unread of this tick's
\* packets is still there for its next run when they were written before
\* it ran (retained), and gone otherwise.  No system of Play reads network
\* events.  Of the systems of Play, the model has the keepalive responder
\* and handle_disconnect, whose reader passes every packet of the tick.
TickPlayDone(events, packets, eff, fresh, expired) ==
    /\ ka_unread' = fresh
    /\ tick' = [phase |-> "Play", logins |-> <<>>, events |-> events,
                packets |-> packets, order |-> "", sent |-> eff.sent,
                emitted |-> eff.emitted, opened |-> <<>>,
                expired |-> KeepAlivesOf(expired)]
    /\ login_state' = IF eff.next = "" THEN login_state ELSE eff.next
    /\ UNCHANGED <<login_resource, connects, outbound, session_events,
                   script_pos>>
    /\ UNCHANGED <<codec_vars, decode_vars, encode_vars, chunk_vars, server_vars,
                   config_vars, game_vars>>

\* unread is what the loop left; its last nfresh packets are of this tick.
TickPlayUnread(events, packets, retained, eff, unread, nfresh) ==
    IF retained
    THEN TickPlayDone(events, packets, eff,
                      SubSeq(unread, Len(unread) - nfresh + 1, Len(unread)),
                      SubSeq(unread, 1, Len(unread) - nfresh))
    ELSE TickPlayDone(events, packets, eff, <<>>, unread)

TickPlayVisible(events, packets, retained, visible) ==
    TickPlayUnread(events, packets, retained,
                   Then(respond_to_keep_alive_packets(visible),
                        handle_disconnect(packets)),
                   keep_alive_unread(visible),
                   IF Len(keep_alive_unread(visible)) < Len(packets)
                   THEN Len(keep_alive_unread(visible)) ELSE Len(packets))

TickPlay(events, packets, retained) ==
    /\ login_state = "Play"
    /\ TickPlayVisible(events, packets, retained, ka_unread \o packets)

\* Idle: a login request starts an attempt; what the attempt has sent,
\* opened and emitted is counted from here.
TickIdle(logins) ==
    /\ login_state = "Idle"
    /\ LET eff == await_login_event_then_connect(logins)
       IN  /\ login_state' = IF eff.next = "" THEN login_state ELSE eff.next
           /\ IF logins = <<>>
              THEN UNCHANGED <<login_resource, outbound, session_events,
                               connects, script_pos, ka_unread>>
              ELSE /\ login_resource' =
                        [username |-> logins[Len(logins)].username,
                         server_addr |-> logins[Len(logins)].server]
                   /\ outbound' = <<>>
                   /\ session_events' = <<>>
                   /\ connects' = eff.opened
                   /\ script_pos' = IF Len(logins) = 1 THEN 1 ELSE 0
                   /\ ka_unread' = <<>>
           /\ tick' = [NoTick EXCEPT !.phase = "Idle", !.logins = logins,
                                     !.opened = eff.opened]
    /\ UNCHANGED <<codec_vars, decode_vars, encode_vars, chunk_vars, server_vars,
                   config_vars, game_vars>>

TickStatusAwaitingConnect(events, order) ==
    /\ login_state = "StatusAwaitingConnect"
    /\ Advance(InOrder(order, handle_connection_error(events),
                   await_connect_then_send_handshake_and_status_request(
                       events, protocol_version)),
               events, <<>>, order)

\* No system of this phase reads the network events that arrive in it.
TickStatusAwaitingResponse(events, packets) ==
    /\ login_state = "StatusAwaitingResponse"
    /\ Advance(await_response_then_send_status_ping(packets), events, packets, "")

TickStatusAwaitingDisconnect(events) ==
    /\ login_state = "StatusAwaitingDisconnect"
    /\ Advance(await_disconnect_then_connect_for_login(
                   events, login_resource.server_addr),
               events, <<>>, "")

TickLoginAwaitingConnect(events, order) ==
    /\ login_state = "LoginAwaitingConnect"
    /\ Advance(InOrder(order, handle_connection_error(events),
                   await_connect_then_send_handshake_and_login_start(
                       events, protocol_version, login_resource.username)),
               events, <<>>, order)

\* No system of this phase reads the network events that arrive in it.
TickLoginAwaitingSuccess(events, packets) ==
    /\ login_state = "LoginAwaitingSuccess"
    /\ Advance(await_login_success(packets), events, packets, "")

(***************************************************************************)
(* Chunk section bitmask decoder (chunks.rs).  The reads of a section      *)
(* return [st, at, pos]: st as for the primitives, at the read that        *)
(* failed, pos the cursor after the section.                               *)
(***************************************************************************)
SECTIONS_PER_CHUNK == 16     \* brine_chunk::SECTIONS_PER_CHUNK
MAX_BITS_PER_BLOCK == 8      \* SectionPalette::MAX_BITS_PER_BLOCK
MaxStray == 2                \* most stray bytes after the sections

\* ReadBytesExt::read_i16 / read_u8 / read_u64 on a Cursor: read_exact of
\* the width, UnexpectedEof when fewer bytes are left.
read_i16(buf, pos) ==
    IF pos + 2 > Len(buf) THEN RFail("eof", pos)
    ELSE ROk(LET u == buf[pos + 1] * 256 + buf[pos + 2]
             IN  IF u >= 32768 THEN u - 65536 ELSE u, pos + 2)

read_u8(buf, pos) ==
    IF pos + 1 > Len(buf) THEN RFail("eof", pos) ELSE ROk(buf[pos + 1], pos + 1)

\* The eight bytes of a data word are discarded.
read_u64(buf, pos) ==
    IF pos + 8 > Len(buf) THEN RFail("eof", pos) ELSE ROk(0, pos + 8)

\* brine_chunk::decode::VarIntRead::read_var_i32.
read_var_i32(buf, pos) == VarIntRead(buf, pos)

SectionOk(pos) == [st |-> "ok", at |-> "", pos |-> pos]
SectionErr(r, at) == [st |-> r.st, at |-> at, pos |-> r.pos]

RECURSIVE read_data_words(_, _, _)
\* A loop that takes a negative length for its magnitude.
read_data_words_by_magnitude(buf, pos, n) ==
    IF n = 0 THEN SectionOk(pos)
    ELSE IF read_u64(buf, pos).st # "ok"
         THEN SectionErr(read_u64(buf, pos), "read_u64")
    ELSE read_data_words(buf, read_u64(buf, pos).pos,
                         IF n < 0 THEN n + 1 ELSE n - 1)

\* for _ in 0..array_length { cursor.read_u64()? }
read_data_words(buf, pos, n) ==
    IF n <= 0 THEN SectionOk(pos)
    ELSE IF read_u64(buf, pos).st # "ok"
         THEN SectionErr(read_u64(buf, pos), "read_u64")
    ELSE read_data_words(buf, read_u64(buf, pos).pos, n - 1)

\* let array_length = cursor.read_var_i32()?; then the words.
read_data_array(buf, array_length) ==
    IF array_length.st # "ok" THEN SectionErr(array_length, "read_var_i32")
    ELSE read_data_words(buf, array_length.pos, array_length.val)

\* for _ in 0..palette_len { cursor.read_var_i32()? }
RECURSIVE read_palette_entries(_, _, _)
read_palette_entries(buf, pos, n) ==
    IF n <= 0 THEN SectionOk(pos)
    ELSE IF read_var_i32(buf, pos).st # "ok"
         THEN SectionErr(read_var_i32(buf, pos), "read_var_i32")
    ELSE read_palette_entries(buf, read_var_i32(buf, pos).pos, n - 1)

\* let palette_len = cursor.read_var_i32()?; then the entries.
read_palette(buf, palette_len) ==
    IF palette_len.st # "ok" THEN SectionErr(palette_len, "read_var_i32")
    ELSE read_palette_entries(buf, palette_len.pos, palette_len.val)

read_after_palette(buf, palette) ==
    IF palette.st # "ok" THEN palette
    ELSE read_data_array(buf, read_var_i32(buf, palette.pos))

\* bits_per_block is raised to 4; a palette follows when it is within
\* MAX_BITS_PER_BLOCK.
read_after_bits(buf, bits_per_block) ==
    IF bits_per_block.st # "ok" THEN SectionErr(bits_per_block, "read_u8")
    ELSE IF (IF bits_per_block.val < 4 THEN 4 ELSE bits_per_block.val)
               <= MAX_BITS_PER_BLOCK
         THEN read_after_palette(buf,
                  read_palette(buf, read_var_i32(buf, bits_per_block.pos)))
    ELSE read_data_array(buf, read_var_i32(buf, bits_per_block.pos))

\* One pass of the loop body up to the data array.
read_section(buf, start) ==
    IF read_i16(buf, start).st # "ok"
    THEN SectionErr(read_i16(buf, start), "read_i16")
    ELSE read_after_bits(buf, read_u8(buf, read_i16(buf, start).pos))

MaskOk(bitmask, remaining) ==
    [st |-> "ok", at |-> "", bitmask |-> bitmask, remaining |-> remaining]
MaskErr(at) == [st |-> "err", at |-> at, bitmask |-> 0, remaining |-> 0]
NoMask == [st |-> "none", at |-> "", bitmask |-> 0, remaining |-> 0]

set_section_bit_one_higher(bitmask, section_index) ==
    IF (bitmask \div Pow2(section_index + 1)) % 2 = 1 THEN bitmask
    ELSE bitmask + Pow2(section_index + 1)

\* if section_index < 32 { bitmask |= 1 << section_index; }
set_section_bit(bitmask, section_index) ==
    IF section_index >= 32 THEN bitmask
    ELSE IF (bitmask \div Pow2(section_index)) % 2 = 1 THEN bitmask
    ELSE bitmask + Pow2(section_index)

\* One pass of the loop: where it started, how its reads ended and
\* cursor.position() - start after them.
Pass(start, section) ==
    [start |-> start, st |-> section.st, consumed |-> section.pos - start]

LoopEnd(mask, passes) == [mask |-> mask, passes |-> passes]

RECURSIVE section_loop(_, _, _, _, _)
section_loop_body(buf, start, bitmask, section_index, section, passes) ==
    IF section.st # "ok" THEN LoopEnd(MaskErr(section.at), passes)
    ELSE IF section.pos - start = 0
         THEN LoopEnd(MaskOk(bitmask, Len(buf) - section.pos), passes)
    ELSE IF section_index + 1 >= SECTIONS_PER_CHUNK
         THEN LoopEnd(MaskOk(set_section_bit(bitmask, section_index),
                             Len(buf) - section.pos), passes)
    ELSE section_loop(buf, section.pos,
                      set_section_bit(bitmask, section_index),
                      section_index + 1, passes)

section_loop_pass(buf, pos, bitmask, section_index, section, passes) ==
    section_loop_body(buf, pos, bitmask, section_index, section,
                      Append(passes, Pass(pos, section)))

\* while (cursor.position() as usize) < chunk_bytes.len() { ... }
section_loop(buf, pos, bitmask, section_index, passes) ==
    IF pos >= Len(buf) THEN LoopEnd(MaskOk(bitmask, 0), passes)
    ELSE section_loop_pass(buf, pos, bitmask, section_index,
                           read_section(buf, pos), passes)

\* The result, with the passes the loop made to reach it.
compute_section_bitmask(chunk) == section_loop(chunk, 0, 0, 0, <<>>)

\* Sections on the wire: an indirect palette whose palette length and
\* data-array length are negative varints (-1 and -2, five bytes each),
\* a direct palette (no palette on the wire) with one data word, and a
\* palette of two entries (one of them a two-byte varint) with one word,
\* its bits-per-block below the minimum.
Sections == <<
    <<0, 0, 4, 255, 255, 255, 255, 15, 254, 255, 255, 255, 15>>,
    <<0, 1, 9, 1, 0, 0, 0, 0, 0, 0, 0, 1>>,
    <<0, 0, 0, 2, 1, 129, 1, 1, 0, 0, 0, 0, 0, 0, 0, 0>> >>

StrayBytes == {0, 9, 128}

\* chunk_layout: the number of whole sections at the front, the kind of
\* the last section appended, the bytes cut off its end and the stray bytes
\* after the sections.
NoLayout == [whole |-> 0, last |-> 1, cut |-> 0, stray |-> 0]

\* The server appends a section (kinds in ascending order).
AppendSection(kind) ==
    /\ chunk_layout.cut = 0 /\ chunk_layout.stray = 0
    /\ chunk_layout.whole <= SECTIONS_PER_CHUNK
    /\ kind >= chunk_layout.last
    /\ chunk_bytes' = chunk_bytes \o Sections[kind]
    /\ chunk_layout' = [chunk_layout EXCEPT !.whole = @ + 1, !.last = kind]
    /\ chunk_mask' = NoMask
    /\ chunk_passes' = <<>>
    /\ UNCHANGED <<codec_vars, decode_vars, encode_vars, login_vars, server_vars,
                   config_vars, game_vars>>

\* The payload loses its last byte: the last section is cut short.
Truncate ==
    /\ chunk_layout.stray = 0
    /\ chunk_layout.whole + chunk_layout.cut >= 1
    /\ chunk_layout.cut + 1 < Len(Sections[chunk_layout.last])
    /\ chunk_bytes' = SubSeq(chunk_bytes, 1, Len(chunk_bytes) - 1)
    /\ chunk_layout' = [chunk_layout EXCEPT
                          !.whole = IF chunk_layout.cut = 0 THEN @ - 1 ELSE @,
                          !.cut = @ + 1]
    /\ chunk_mask' = NoMask
    /\ chunk_passes' = <<>>
    /\ UNCHANGED <<codec_vars, decode_vars, encode_vars, login_vars, server_vars,
                   config_vars, game_vars>>

\* A stray byte follows the sections.
AppendStray(b) ==
    /\ chunk_layout.cut = 0
    /\ chunk_layout.stray < MaxStray
    /\ chunk_bytes' = Append(chunk_bytes, b)
    /\ chunk_layout' = [chunk_layout EXCEPT !.stray = @ + 1]
    /\ chunk_mask' = NoMask
    /\ chunk_passes' = <<>>
    /\ UNCHANGED <<codec_vars, decode_vars, encode_vars, login_vars, server_vars,
                   config_vars, game_vars>>

\* ChunkData::from_packet computes the bitmask of the payload.
ComputeSectionBitmask ==
    /\ chunk_mask = NoMask
    /\ \E run \in {compute_section_bitmask(chunk_bytes)} :
           chunk_mask' = run.mask /\ chunk_passes' = run.passes
    /\ UNCHANGED <<chunk_bytes, chunk_layout>>
    /\ UNCHANGED <<codec_vars, decode_vars, encode_vars, login_vars, server_vars,
                   config_vars, game_vars>>

(***************************************************************************)
(* AlwaysSuccessfulLoginPlugin (successful_login.rs).                      *)
(***************************************************************************)
MaxUuid == 3                 \* Uuid::new_v4 draws from 0 .. MaxUuid
MaxLogins == 4               \* most Login messages ever written

LoginSuccess(uuid, username) == [uuid |-> uuid, username |-> username]

\* if let Some(login) = rx.read().last() { ... }: the last request of the
\* batch, when there is one.
handle_login_last(logins) ==
    IF logins = <<>> THEN None ELSE Some(logins[Len(logins)])

\* One Update tick with the Login messages written since the last one;
\* handle_login runs only in ServerState::Login.
ServerTick(logins, uuid) ==
    /\ Len(server_logins) + Len(logins) <= MaxLogins
    /\ server_logins' = server_logins \o logins
    /\ IF server_state = "Login" /\ is_some(handle_login_last(logins))
       THEN /\ server_state' = "Play"
            /\ server_success' = Append(server_success,
                   LoginSuccess(uuid, handle_login_last(logins)[1].username))
       ELSE UNCHANGED <<server_state, server_success>>
    /\ UNCHANGED <<codec_vars, decode_vars, encode_vars, login_vars, chunk_vars,
                   config_vars, game_vars>>

(***************************************************************************)
(* Configuration and the tick heartbeat of the Play phase (login.rs,       *)
(* mod play).  Time is counted in half seconds.                            *)
(***************************************************************************)
MaxElapsed == 7              \* last instant of Time::elapsed the model reaches
MaxDelta == 2                \* longest frame
MaxExchange == 4             \* most packets of one configuration exchange
TICK_END_INTERVAL == 2       \* 1.0 second

\* ConfigurationState::default()
ConfigurationState(started, sent_settings, start_config_seen, finished) ==
    [started |-> started, sent_settings |-> sent_settings,
     start_config_seen |-> start_config_seen, finished |-> finished]
ConfigurationDefault == ConfigurationState(FALSE, FALSE, FALSE, FALSE)
\* TickEndState::default()
TickEndDefault == [last_sent_seconds |-> 0]

ConfigPackets == {
    InPacket("PlayClientboundStartConfiguration", "", 0),
    InPacket("ConfigurationClientboundSelectKnownPacks", "packs", 0),
    InPacket("ConfigurationClientboundCookieRequest", "key", 0),
    InPacket("ConfigurationClientboundFinishConfiguration", "", 0),
    InPacket("ConfigurationClientboundRegistryData", "", 0) }
ConfigPacketBatches == SeqsUpTo(ConfigPackets, MaxBatch)

\* The packets that only make sure the settings have gone out.
ConfigurationOtherNames == {
    "ConfigurationClientboundFeatureFlags", "ConfigurationClientboundRegistryData",
    "ConfigurationClientboundCustomPayload", "ConfigurationClientboundKeepAlive",
    "ConfigurationClientboundPing" }

\* What the handler does on one packet: the state it leaves, the packets
\* it sends, and whether the loop breaks.
Handled(config, sent, stop) == [config |-> config, sent |-> sent, stop |-> stop]

\* ensure_config_settings that does not note that the settings went out.
ensure_config_settings_forgetting(config) ==
    IF ~config.sent_settings
    THEN Handled([config EXCEPT !.started = TRUE],
                 <<OutPacket("ConfigurationServerboundSettings", 0, 0, "")>>, FALSE)
    ELSE Handled(config, <<>>, FALSE)

ensure_config_settings(config) ==
    IF ~config.sent_settings
    THEN Handled([config EXCEPT !.sent_settings = TRUE, !.started = TRUE],
                 <<OutPacket("ConfigurationServerboundSettings", 0, 0, "")>>, FALSE)
    ELSE Handled(config, <<>>, FALSE)

FinishResponses ==
    <<OutPacket("ConfigurationServerboundFinishConfiguration", 0, 0, ""),
      OutPacket("PlayServerboundSettings", 0, 0, ""),
      OutPacket("PlayServerboundPlayerLoaded", 0, 0, "")>>

\* The finish arm that goes on to the next packet of the batch.
on_finish_configuration_without_break(e) ==
    Handled([e.config EXCEPT !.started = FALSE, !.finished = TRUE,
                             !.sent_settings = FALSE,
                             !.start_config_seen = FALSE],
            e.sent \o FinishResponses, FALSE)

\* The finish arm, after ensure_config_settings has run (e).
on_finish_configuration(e) ==
    Handled([e.config EXCEPT !.started = FALSE, !.finished = TRUE,
                             !.sent_settings = FALSE,
                             !.start_config_seen = FALSE],
            e.sent \o FinishResponses, TRUE)

\* The start arm, after the two flags are cleared and
\* ensure_config_settings has run (e).
on_start_configuration(e) ==
    Handled([e.config EXCEPT !.started = TRUE, !.start_config_seen = TRUE],
            e.sent, FALSE)

\* One pass of the loop body of handle_configuration_start.
handle_configuration_packet(config, packet) ==
    CASE packet.name = "PlayClientboundStartConfiguration" ->
            on_start_configuration(ensure_config_settings(
                [config EXCEPT !.sent_settings = FALSE, !.finished = FALSE]))
      [] packet.name = "ConfigurationClientboundSelectKnownPacks" ->
            Handled(ensure_config_settings(config).config,
                    ensure_config_settings(config).sent \o
                      <<OutPacket("ConfigurationServerboundSelectKnownPacks",
                                  0, 0, packet.str)>>, FALSE)
      [] packet.name = "ConfigurationClientboundCookieRequest" ->
            Handled(ensure_config_settings(config).config,
                    ensure_config_settings(config).sent \o
                      <<OutPacket("ConfigurationServerboundCookieResponse",
                                  0, 0, packet.str)>>, FALSE)
      [] packet.name = "ConfigurationClientboundFinishConfiguration" ->
            on_finish_configuration(ensure_config_settings(config))
      [] packet.name \in ConfigurationOtherNames -> ensure_config_settings(config)
      [] OTHER -> Handled(config, <<>>, FALSE)

\* handle_configuration_start over the packets its reader yields: the state
\* it leaves, what it sent for each packet it read (responses[i] for
\* visible[i]), in order; the loop ends at the break or with the batch.
RECURSIVE handle_configuration_loop(_, _, _, _)
handle_configuration_loop(config, visible, i, responses) ==
    IF i > Len(visible) THEN [config |-> config, responses |-> responses]
    ELSE IF handle_configuration_packet(config, visible[i]).stop
    THEN [config |-> handle_configuration_packet(config, visible[i]).config,
          responses |-> Append(responses,
                           handle_configuration_packet(config, visible[i]).sent)]
    ELSE handle_configuration_loop(
             handle_configuration_packet(config, visible[i]).config, visible,
             i + 1,
             Append(responses, handle_configuration_packet(config, visible[i]).sent))

handle_configuration_start(config, visible) ==
    handle_configuration_loop(config, visible, 1, <<>>)

\* send_tick_end that sends from the interval on, not only after it.
send_tick_end_at_interval(finished, now, state) ==
    IF ~finished THEN [sent |-> <<>>, state |-> state]
    ELSE IF now - state.last_sent_seconds >= TICK_END_INTERVAL
    THEN [sent |-> <<OutPacket("PlayServerboundTickEnd", 0, 0, "")>>,
          state |-> [last_sent_seconds |-> now]]
    ELSE [sent |-> <<>>, state |-> state]

send_tick_end(finished, now, state) ==
    IF ~finished THEN [sent |-> <<>>, state |-> state]
    ELSE IF now - state.last_sent_seconds > TICK_END_INTERVAL
    THEN [sent |-> <<OutPacket("PlayServerboundTickEnd", 0, 0, "")>>,
          state |-> [last_sent_seconds |-> now]]
    ELSE [sent |-> <<>>, state |-> state]

\* The configuration exchange in progress: it begins with a
\* start-configuration signal, or with the first packet answered after the
\* finish acknowledgment of the one before, and holds the
\* configuration-scoped packets the handler has sent in it.
ConfigurationScoped(sent) ==
    SelectSeq(sent, LAMBDA p : p.name \in {
        "ConfigurationServerboundSettings", "ConfigurationServerboundSelectKnownPacks",
        "ConfigurationServerboundCookieResponse",
        "ConfigurationServerboundFinishConfiguration"})

ExchangeOver(exchange) ==
    /\ exchange # <<>>
    /\ exchange[Len(exchange)].name = "ConfigurationServerboundFinishConfiguration"

RECURSIVE exchange_after(_, _, _, _)
exchange_after(exchange, visible, responses, i) ==
    IF i > Len(responses) THEN exchange
    ELSE exchange_after(
             IF visible[i].name = "PlayClientboundStartConfiguration"
                \/ (ExchangeOver(exchange) /\ responses[i] # <<>>)
             THEN ConfigurationScoped(responses[i])
             ELSE exchange \o ConfigurationScoped(responses[i]),
             visible, responses, i + 1)

SystemOrdersOfPlay == {"tick_end_first", "configuration_first"}
NoConfigTick == [packets |-> <<>>, visible |-> <<>>, responses |-> <<>>,
                 before |-> ConfigurationDefault, order |-> "",
                 finished_seen |-> FALSE, tick_end |-> FALSE, ran |-> FALSE]

\* One tick of Play, of the two systems that share ConfigurationState.
\* h is what handle_configuration_start did; send_tick_end sees the
\* finished flag as the system that ran first left it.
TickConfigDone(packets, retained, order, now, visible, h, t) ==
    /\ config_state' = h.config
    /\ tick_state' = t.state
    /\ elapsed_secs' = now
    /\ tick_end_times' = IF t.sent = <<>> THEN tick_end_times
                         ELSE Append(tick_end_times, now)
    /\ config_unread' =
          IF retained
          THEN SubSeq(visible,
                      IF Len(h.responses) >= Len(config_unread)
                      THEN Len(h.responses) + 1 ELSE Len(config_unread) + 1,
                      Len(visible))
          ELSE <<>>
    /\ config_exchange' = exchange_after(config_exchange, visible, h.responses, 1)
    /\ Len(config_exchange') <= MaxExchange
    /\ config_tick' = [packets |-> packets, visible |-> visible,
                       responses |-> h.responses, before |-> config_state,
                       order |-> order,
                       finished_seen |-> IF order = "tick_end_first"
                                         THEN config_state.finished
                                         ELSE h.config.finished,
                       tick_end |-> t.sent # <<>>,
                       ran |-> TRUE]
    /\ UNCHANGED <<codec_vars, decode_vars, encode_vars, login_vars, chunk_vars,
                   server_vars, game_vars>>

TickConfigHandled(packets, retained, order, now, visible, h) ==
    TickConfigDone(packets, retained, order, now, visible, h,
                   send_tick_end(IF order = "tick_end_first"
                                 THEN config_state.finished ELSE h.config.finished,
                                 now, tick_state))

TickConfig(packets, retained, delta, order) ==
    /\ login_state = "Play"
    /\ elapsed_secs + delta <= MaxElapsed
    /\ TickConfigHandled(packets, retained, order, elapsed_secs + delta,
                         config_unread \o packets,
                         handle_configuration_start(config_state,
                                                    config_unread \o packets))

(***************************************************************************)
(* The hosting session layer (src/login.rs, LoginPlugin).                  *)
(***************************************************************************)
GameStates == {"Idle", "Login", "Play"}

LoginInfo(server, username, exit_on_disconnect) ==
    [server |-> server, username |-> username,
     exit_on_disconnect |-> exit_on_disconnect]
NoLoginInfo == LoginInfo("", "", FALSE)

\* The session events a tick brings to the readers of the session layer.
SuccessBatches == SeqsUpTo({LoginSuccessEvent("Alice", 4660)}, MaxBatch)
DisconnectBatches ==
    SeqsUpTo({DisconnectEvent("{:?}", "kicked"),
              DisconnectEvent("Connection failed: ", "ConnectFailed(refused)")},
             MaxBatch)

\* What one system of the session layer does in one run: the NextState it
\* set ("" when none) and the AppExit messages it wrote.
await_success(successes) ==
    [next |-> IF successes # <<>> THEN "Play" ELSE "", exits |-> 0]

session_handle_disconnect(info, disconnects) ==
    IF disconnects # <<>>
    THEN [next |-> "Idle", exits |-> IF info.exit_on_disconnect THEN 1 ELSE 0]
    ELSE [next |-> "", exits |-> 0]

GameThen(first, second) ==
    [next |-> IF second.next # "" THEN second.next ELSE first.next,
     exits |-> first.exits + second.exits]

GameOrders == {"success_first", "disconnect_first"}
NoGameTick == [state |-> "", successes |-> <<>>, disconnects |-> <<>>,
               order |-> "", ran |-> FALSE]

\* Startup: initiate_login.
Startup ==
    /\ game_state = "Idle" /\ login_events = <<>>
    /\ login_events' = <<Login(login_info.server, login_info.username)>>
    /\ game_state' = "Login"
    /\ UNCHANGED <<login_info, app_exit, game_unread, game_tick>>
    /\ UNCHANGED <<codec_vars, decode_vars, encode_vars, login_vars, chunk_vars,
                   server_vars, config_vars>>

\* What a tick leaves in the session layer; seen is the Disconnect messages
\* its instance of handle_disconnect read.
GameTickDone(successes, seen, order, eff, unread) ==
    /\ game_state' = IF eff.next = "" THEN game_state ELSE eff.next
    /\ app_exit' = app_exit + eff.exits
    /\ game_unread' = unread
    /\ game_tick' = [state |-> game_state, successes |-> successes,
                     disconnects |-> seen, order |-> order, ran |-> TRUE]
    /\ UNCHANGED <<login_info, login_events>>
    /\ UNCHANGED <<codec_vars, decode_vars, encode_vars, login_vars, chunk_vars,
                   server_vars, config_vars>>

\* Update in GameState::Login: await_success and handle_disconnect, in the
\* order the scheduler picks.  The Disconnect messages of this tick are
\* still buffered in the next one when they were written in this frame
\* (retained); the instance of handle_disconnect that runs in Play has not
\* read them.
GameTickLogin(successes, disconnects, order, retained) ==
    /\ game_state = "Login" /\ app_exit = 0
    /\ GameTickDone(successes, disconnects, order,
                    IF order = "success_first"
                    THEN GameThen(await_success(successes),
                                  session_handle_disconnect(login_info, disconnects))
                    ELSE GameThen(session_handle_disconnect(login_info, disconnects),
                                  await_success(successes)),
                    IF retained THEN disconnects ELSE <<>>)

\* Update in GameState::Play: handle_disconnect, whose reader starts with
\* what is still buffered.
GameTickPlay(disconnects) ==
    /\ game_state = "Play" /\ app_exit = 0
    /\ GameTickDone(<<>>, game_unread \o disconnects, "",
                    session_handle_disconnect(login_info, game_unread \o disconnects), <<>>)

(***************************************************************************)
(* Specifications.                                                         *)
(***************************************************************************)
CodecAtRest ==
    /\ rbuf = <<>> /\ dres = NoDecode /\ dpre = NoDecodePre
    /\ eres = NoEncode /\ epre = NoEncodePre

LoginAtRest ==
    /\ login_state = "Idle" /\ login_resource = NoResource
    /\ connects = <<>> /\ outbound = <<>> /\ session_events = <<>>
    /\ ka_unread = <<>>
    /\ tick = NoTick /\ script_pos = 0

ChunkAtRest ==
    chunk_bytes = <<>> /\ chunk_layout = NoLayout /\ chunk_mask = NoMask
    /\ chunk_passes = <<>>

ServerAtRest ==
    server_state = "Login" /\ server_logins = <<>> /\ server_success = <<>>

ConfigAtRest ==
    /\ config_state = ConfigurationDefault /\ tick_state = TickEndDefault
    /\ elapsed_secs = 0 /\ config_unread = <<>> /\ tick_end_times = <<>>
    /\ config_exchange = <<>> /\ config_tick = NoConfigTick

GameAtRest ==
    /\ game_state = "Idle" /\ login_info = NoLoginInfo /\ login_events = <<>>
    /\ app_exit = 0 /\ game_unread = <<>> /\ game_tick = NoGameTick

\* The inbound side of the codec: a codec built in any connection state,
\* with compression off or already switched on by the server.
Init ==
    /\ protocol_version = DefaultVersion
    /\ protocol_state \in ProtocolStates
    /\ compression_threshold \in {None, Some(0)}
    /\ CodecAtRest /\ LoginAtRest /\ ChunkAtRest /\ ServerAtRest
    /\ ConfigAtRest /\ GameAtRest

Next ==
    \/ \E b \in ByteAlphabet : Receive(b)
    \/ \E packet \in ServerPackets : ReceiveFrame(packet)
    \/ Decode

Spec == Init /\ [][Next]_vars

\* The outbound side of the codec.
NextEncode ==
    \E packet \in EncodablePackets, buflen \in OutBufSizes : Encode(packet, buflen)

InitEncode ==
    /\ protocol_version = DefaultVersion
    /\ protocol_state \in ProtocolStates
    /\ compression_threshold \in InitThresholds
    /\ CodecAtRest /\ LoginAtRest /\ ChunkAtRest /\ ServerAtRest
    /\ ConfigAtRest /\ GameAtRest

SpecEncode == InitEncode /\ [][NextEncode]_vars

\* The orchestrator, from the start of the program; the packets of the
\* Play phase are left to SpecPlay.
InitLogin ==
    /\ protocol_version = DefaultVersion
    /\ protocol_state = "Handshaking"
    /\ compression_threshold = None
    /\ CodecAtRest /\ LoginAtRest /\ ChunkAtRest /\ ServerAtRest
    /\ ConfigAtRest /\ GameAtRest

NextLogin ==
    \/ \E logins \in LoginBatches : TickIdle(logins)
    \/ \E events \in EventBatches, order \in SystemOrders :
          TickStatusAwaitingConnect(events, order)
    \/ \E in \in PacketTickInputs : TickStatusAwaitingResponse(in[1], in[2])
    \/ \E events \in EventBatches : TickStatusAwaitingDisconnect(events)
    \/ \E events \in EventBatches, order \in SystemOrders :
          TickLoginAwaitingConnect(events, order)
    \/ \E in \in PacketTickInputs : TickLoginAwaitingSuccess(in[1], in[2])
    \/ \E events \in UnreadEventBatches : TickPlay(events, <<>>, TRUE)

SpecLogin == InitLogin /\ [][NextLogin]_vars

\* The Play phase, entered by the login of Alice at srvA.
PlayEntered ==
    /\ login_state = "Play"
    /\ login_resource = [username |-> "Alice", server_addr |-> "srvA"]
    /\ connects = <<"srvA", "srvA">>
    /\ outbound = <<make_handshake_packet(DefaultVersion, HANDSHAKE_STATUS_NEXT),
                    OutPacket("StatusServerboundPingStart", 0, 0, ""),
                    OutPacket("StatusServerboundPing", 0, 0, ""),
                    make_handshake_packet(DefaultVersion, HANDSHAKE_LOGIN_NEXT),
                    make_login_start_packet(DefaultVersion, "Alice"),
                    OutPacket("LoginServerboundLoginAcknowledged", 0, 0, "")>>
    /\ session_events = <<LoginSuccessEvent("Alice", 4660)>>
    /\ ka_unread = <<>>
    /\ tick = [NoTick EXCEPT
                 !.phase = "LoginAwaitingSuccess",
                 !.packets = <<InPacket("LoginClientboundSuccess", "Alice", 4660)>>,
                 !.sent = <<OutPacket("LoginServerboundLoginAcknowledged", 0, 0, "")>>,
                 !.emitted = <<LoginSuccessEvent("Alice", 4660)>>]
    /\ script_pos = Len(Script) + 1

InitPlay ==
    /\ protocol_version = DefaultVersion
    /\ protocol_state = "Play"
    /\ compression_threshold = None
    /\ CodecAtRest /\ ChunkAtRest /\ ServerAtRest
    /\ ConfigAtRest /\ GameAtRest
    /\ PlayEntered

\* The network events of the Play phase are left to SpecLogin.
NextPlay ==
    \E packets \in PlayPacketBatches, retained \in BOOLEAN :
        TickPlay(<<>>, packets, retained)

SpecPlay == InitPlay /\ [][NextPlay]_vars

\* The section bitmask decoder on payloads of whole, cut and stray bytes.
InitChunk ==
    /\ protocol_version = DefaultVersion
    /\ protocol_state = "Play"
    /\ compression_threshold = None
    /\ CodecAtRest /\ LoginAtRest /\ ChunkAtRest /\ ServerAtRest
    /\ ConfigAtRest /\ GameAtRest

NextChunk ==
    \/ \E kind \in DOMAIN Sections : AppendSection(kind)
    \/ Truncate
    \/ \E b \in StrayBytes : AppendStray(b)
    \/ ComputeSectionBitmask

SpecChunk == InitChunk /\ [][NextChunk]_vars

\* The stand-in server that accepts every login.
InitServer ==
    /\ protocol_version = DefaultVersion
    /\ protocol_state = "Handshaking"
    /\ compression_threshold = None
    /\ CodecAtRest /\ LoginAtRest /\ ChunkAtRest /\ ServerAtRest
    /\ ConfigAtRest /\ GameAtRest

NextServer ==
    \E logins \in LoginBatches, uuid \in 0..MaxUuid : ServerTick(logins, uuid)

SpecServer == InitServer /\ [][NextServer]_vars

\* The systems of Play that share ConfigurationState, from the tick the
\* login success arrives in.  Time stands still here.
InitConfig ==
    /\ protocol_version = DefaultVersion
    /\ protocol_state = "Login"
    /\ compression_threshold = None
    /\ CodecAtRest /\ ChunkAtRest /\ ServerAtRest
    /\ ConfigAtRest /\ GameAtRest
    /\ login_state = "LoginAwaitingSuccess"
    /\ login_resource = [username |-> "Alice", server_addr |-> "srvA"]
    /\ connects = <<"srvA", "srvA">>
    /\ outbound = <<>> /\ session_events = <<>> /\ ka_unread = <<>>
    /\ tick = NoTick /\ script_pos = 0

LoginSucceeds ==
    TickLoginAwaitingSuccess(<<>>, <<InPacket("LoginClientboundSuccess", "Alice", 4660)>>)

NextConfig ==
    \/ LoginSucceeds
    \/ \E packets \in ConfigPacketBatches, retained \in BOOLEAN :
          TickConfig(packets, retained, 0, "configuration_first")

SpecConfig == InitConfig /\ [][NextConfig]_vars

\* The same systems with time passing, on the packets that set and clear
\* the finished flag.
TickEndPacketBatches ==
    {<<>>, <<InPacket("PlayClientboundStartConfiguration", "", 0)>>,
     <<InPacket("ConfigurationClientboundFinishConfiguration", "", 0)>>}

NextTickEnd ==
    \/ LoginSucceeds
    \/ \E packets \in TickEndPacketBatches, delta \in 0..MaxDelta,
          order \in SystemOrdersOfPlay : TickConfig(packets, TRUE, delta, order)

SpecTickEnd == InitConfig /\ [][NextTickEnd]_vars

\* Update runs every frame, and the clock does not stand still for ever.
TimePasses ==
    \E packets \in TickEndPacketBatches, delta \in 1..MaxDelta,
       order \in SystemOrdersOfPlay : TickConfig(packets, TRUE, delta, order)

SpecTickEndFair == SpecTickEnd /\ WF_vars(TimePasses)

\* The session layer of an application started with or without
\* exit_on_disconnect.
InitGame ==
    /\ protocol_version = DefaultVersion
    /\ protocol_state = "Handshaking"
    /\ compression_threshold = None
    /\ CodecAtRest /\ LoginAtRest /\ ChunkAtRest /\ ServerAtRest
    /\ ConfigAtRest
    /\ game_state = "Idle"
    /\ login_info \in {LoginInfo("srvA", "Alice", e) : e \in BOOLEAN}
    /\ login_events = <<>> /\ app_exit = 0 /\ game_unread = <<>>
    /\ game_tick = NoGameTick

NextGame ==
    \/ Startup
    \/ \E successes \in SuccessBatches, disconnects \in DisconnectBatches,
          order \in GameOrders, retained \in BOOLEAN :
          GameTickLogin(successes, disconnects, order, retained)
    \/ \E disconnects \in DisconnectBatches : GameTickPlay(disconnects)

SpecGame == InitGame /\ [][NextGame]_vars

\* The schedule runs Update every frame: a tick that changes something is
\* not put off forever.
SpecLoginFair == SpecLogin /\ WF_vars(NextLogin)

(***************************************************************************)
(* Properties of the framer's decode path (specification Spec).  dpre is   *)
(* the context and the buffer the last decode ran on, dres its result.     *)
(***************************************************************************)
Decoded == dres.kind # "None"
FrameHead(buf) == VarIntRead(buf, 0)
FrameLen(buf) == FrameHead(buf).pos + FrameHead(buf).val

\* The buffer stops before the end of the frame its head declares, or in
\* the middle of the length varint (the empty buffer included).
ShortOfFrame(buf) ==
    \/ FrameHead(buf).st = "eof"
    \/ /\ FrameHead(buf).st = "ok" /\ FrameHead(buf).val >= 0
       /\ Len(buf) < FrameLen(buf)

\* The buffer holds all the bytes of the frame its head declares.
CompleteFrame(buf) ==
    /\ FrameHead(buf).st = "ok" /\ FrameHead(buf).val >= 0
    /\ Len(buf) >= FrameLen(buf)

DecodePacketOf(pre) ==
    decode_packet(pre.ctx.version, pre.ctx.state, "Clientbound",
                  pre.ctx.threshold, pre.buf)

\* C1: a decode of a buffer shorter than a complete frame (empty, ending
\* inside the length varint, or ending inside the declared payload) answers
\* (0, UnexpectedEnd), not an error; it consumes nothing and leaves the
\* version, state and compression threshold as they were.
C1_ShortBufferNeedsMoreData ==
    (Decoded /\ ShortOfFrame(dpre.buf)) =>
        /\ dres.kind = "UnexpectedEnd" /\ dres.n = 0
        /\ rbuf = dpre.buf
        /\ CurCtx = dpre.ctx

\* A decode ran on a buffer that holds the length and only a part of the
\* payload it declares.
C1_Witness ==
    /\ Decoded /\ ShortOfFrame(dpre.buf) /\ dres.kind = "UnexpectedEnd"
    /\ Len(dpre.buf) >= 2
    /\ FrameHead(dpre.buf).st = "ok"

\* C2: when the buffer holds a complete frame and a read inside it (the
\* packet id, the uncompressed-length varint, a packet field) runs past the
\* end of the frame's bytes, decode answers a decode error, not
\* need-more-data.
C2_ShortReadInsideFrameIsError ==
    (Decoded /\ CompleteFrame(dpre.buf)
       /\ DecodePacketOf(dpre) = RIOError("UnexpectedEof")) =>
        dres.kind = "Err"

\* C3: a successful decode consumes the bytes of the length varint plus the
\* declared payload length and leaves the bytes after them in the buffer;
\* [0x02, 0x00, 0x01] with compression off and id 0 not in the dispatch
\* table is Unknown{0, [0x01]}, three bytes consumed.
C3_ConsumesExactlyTheFrame ==
    /\ dres.kind = "Ok" =>
          /\ CompleteFrame(dpre.buf)
          /\ dres.n = FrameLen(dpre.buf)
          /\ rbuf = Slice(dpre.buf, FrameLen(dpre.buf), Len(dpre.buf))
    /\ (Decoded /\ Len(dpre.buf) >= 3 /\ Slice(dpre.buf, 0, 3) = <<2, 0, 1>>
           /\ dpre.ctx.threshold = None
           /\ Dispatch(dpre.ctx.state, "Clientbound", 0) = {}) =>
          /\ dres.kind = "Ok" /\ dres.n = 3
          /\ dres.packet = Unknown(0, <<1>>)

\* [0x02, 0x00, 0x01] followed by one more byte was decoded: the packet came
\* out and the extra byte stayed.
C3_Witness ==
    /\ dres.kind = "Ok" /\ dres.n = 3 /\ dres.packet = Unknown(0, <<1>>)
    /\ Len(dpre.buf) = 4 /\ rbuf = <<dpre.buf[4]>>

(***************************************************************************)
(* Properties of the framer's encode path (specification SpecEncode).      *)
(* epre is the packet and buffer size of the last encode, with the version *)
(* and threshold it framed under; eres is its result.                      *)
(***************************************************************************)
Encoded == eres.kind = "Ok"
EncodedIdAndData == encode_packet_id_and_data(epre.version, epre.packet)
\* The frame's bytes after its length varint.
EncodedPayload ==
    Slice(eres.written, FrameHead(eres.written).pos, Len(eres.written))
\* The payload opens with a non-zero uncompressed-length varint.
EncodedCompressed ==
    /\ VarIntRead(EncodedPayload, 0).st = "ok"
    /\ VarIntRead(EncodedPayload, 0).val # 0

\* C4: decoding what encode wrote for a Known packet, under the same
\* version, state and compression setting (off, or on with any threshold),
\* gives the packet back and consumes exactly the bytes written.
C4_RoundTrip ==
    Encoded =>
        /\ eres.n = Len(eres.written)
        /\ decode_packet(epre.version, ShapeOf(epre.packet.name).state,
                         ShapeOf(epre.packet.name).dir, epre.threshold,
                         eres.written)
             = ROkPacket(eres.n, epre.packet)

\* A packet with a non-empty field was written compressed.
C4_Witness ==
    /\ Encoded /\ is_some(epre.threshold) /\ EncodedCompressed
    /\ epre.packet = Known("LoginStart", <<<<1, 2>>>>)

\* C5 as stated: with threshold t the frame is compressed, its
\* uncompressed-length prefix being the size s of id and data, exactly when
\* s >= t, and otherwise carries a zero prefix and the raw bytes; with
\* compression off there is no prefix.
C5_CompressedIffAtLeastThreshold ==
    Encoded =>
        IF is_some(epre.threshold)
        THEN IF Len(EncodedIdAndData) >= epre.threshold[1]
             THEN EncodedPayload = VarIntBytes(Len(EncodedIdAndData))
                                     \o ZlibEncode(EncodedIdAndData)
             ELSE EncodedPayload = VarIntBytes(0) \o EncodedIdAndData
        ELSE EncodedPayload = EncodedIdAndData

\* C5, amended: the frame is compressed exactly when t >= 0 and s >= t; for
\* a negative t, as for s < t, it carries the zero prefix and the raw
\* bytes; with compression off there is no prefix.
C5_CompressedIffNonNegativeThresholdReached ==
    Encoded =>
        IF is_some(epre.threshold)
        THEN IF epre.threshold[1] >= 0
                /\ Len(EncodedIdAndData) >= epre.threshold[1]
             THEN /\ EncodedCompressed
                  /\ EncodedPayload = VarIntBytes(Len(EncodedIdAndData))
                                        \o ZlibEncode(EncodedIdAndData)
             ELSE /\ ~EncodedCompressed
                  /\ EncodedPayload = VarIntBytes(0) \o EncodedIdAndData
        ELSE EncodedPayload = EncodedIdAndData

\* A packet exactly as long as the threshold was written compressed.
C5_Witness ==
    /\ Encoded /\ epre.threshold = Some(2)
    /\ Len(EncodedIdAndData) = 2 /\ EncodedCompressed

(***************************************************************************)
(* Decoding with compression on (specification Spec).                      *)
(***************************************************************************)
DecodedBody == Slice(dpre.buf, FrameHead(dpre.buf).pos, FrameLen(dpre.buf))
DecodedDataLength == VarIntRead(DecodedBody, 0)
DecodedRemaining == Slice(DecodedBody, DecodedDataLength.pos, Len(DecodedBody))
DecodeIdAndData(bytes) ==
    into_decode_result(
        decode_packet_id(dpre.ctx.version, dpre.ctx.state, "Clientbound",
                         bytes, FrameLen(dpre.buf)))

\* C6: with compression on, a frame whose uncompressed-length prefix is
\* zero is decoded from the bytes after the prefix as they are; one whose
\* prefix is non-zero is decoded from those bytes inflated, whether or not
\* the inflated size equals the prefix.
C6_ZeroPrefixVerbatimElseInflate ==
    (Decoded /\ is_some(dpre.ctx.threshold) /\ CompleteFrame(dpre.buf)
       /\ DecodedDataLength.st = "ok") =>
        /\ DecodedDataLength.val = 0 =>
              dres = DecodeIdAndData(DecodedRemaining)
        /\ (DecodedDataLength.val > 0
              /\ ZlibDecode(DecodedRemaining).st = "ok") =>
              dres = DecodeIdAndData(ZlibDecode(DecodedRemaining).val)

\* A frame was decoded whose prefix declares more bytes than the stream
\* inflates to.
C6_Witness ==
    /\ dres.kind = "Ok" /\ is_some(dpre.ctx.threshold)
    /\ DecodedDataLength.st = "ok" /\ DecodedDataLength.val > 0
    /\ ZlibDecode(DecodedRemaining).st = "ok"
    /\ Len(ZlibDecode(DecodedRemaining).val) # DecodedDataLength.val

\* C7: a Handshake that goes through the codec puts it in Status when its
\* next-state field is 1 and in Login when it is 2, whatever state it was
\* in; any other value leaves the state as it was.
C7_HandshakeSetsState ==
    (epre.packet.kind = "Known" /\ epre.packet.name = "Handshake") =>
        protocol_state =
            CASE epre.packet.f[4][1] = 1 -> "Status"
              [] epre.packet.f[4][1] = 2 -> "Login"
              [] OTHER -> epre.ctx.state

\* A Handshake for Status went through a codec that was in Play, and the
\* codec is in Status.
C7_Witness ==
    /\ epre.packet.kind = "Known" /\ epre.packet.name = "Handshake"
    /\ epre.packet.f[4][1] = 1
    /\ epre.ctx.state = "Play" /\ protocol_state = "Status"

(***************************************************************************)
(* Properties of the orchestrator (specification SpecLogin).  tick is the  *)
(* last tick: the phase it ran in, the batches it read and what it did;    *)
(* outbound, connects and session_events are those of the attempt so far.  *)
(***************************************************************************)
Has(batch, x) == \E i \in 1..Len(batch) : batch[i] = x
HasConnectFailed(batch) ==
    \E i \in 1..Len(batch) : batch[i] \in ConnectFailedEvents
WithType(evs, type) == {i \in 1..Len(evs) : evs[i].type = type}
NamesOf(packets) == [i \in 1..Len(packets) |-> packets[i].name]

StatusHandshakeAndRequest ==
    <<make_handshake_packet(protocol_version, HANDSHAKE_STATUS_NEXT),
      OutPacket("StatusServerboundPingStart", 0, 0, "")>>

\* C8: a login request in Idle opens exactly one connection and the phase
\* becomes StatusAwaitingConnect; nothing is sent until a Connected event
\* arrives, and the tick that reads it sends Handshake(next = Status) and
\* then StatusRequest, the first two packets of the attempt; with the
\* connection up (no ConnectFailed in the batch) the phase becomes
\* StatusAwaitingResponse.
C8_LoginRequestStartsDiscovery ==
    /\ (tick.phase = "Idle" /\ tick.logins # <<>>) =>
          /\ tick.opened = <<tick.logins[Len(tick.logins)].server>>
          /\ connects = tick.opened
          /\ login_state = "StatusAwaitingConnect"
          /\ outbound = <<>>
    /\ login_state = "StatusAwaitingConnect" => outbound = <<>>
    /\ (tick.phase = "StatusAwaitingConnect" /\ Has(tick.events, "Connected")) =>
          /\ tick.sent = StatusHandshakeAndRequest
          /\ outbound = tick.sent
          /\ ~HasConnectFailed(tick.events) =>
                login_state = "StatusAwaitingResponse"

\* The connection of a login request came up and the two packets went out.
C8_Witness ==
    /\ tick.phase = "StatusAwaitingConnect" /\ Has(tick.events, "Connected")
    /\ connects = <<login_resource.server_addr>>
    /\ outbound = StatusHandshakeAndRequest
    /\ login_state = "StatusAwaitingResponse"

\* C9: in StatusAwaitingConnect and in LoginAwaitingConnect, a tick whose
\* batch holds a ConnectFailed event (or several, or some next to Connected
\* events) emits exactly one Disconnect carrying the failure as its reason,
\* leaves the phase Idle and sends no Handshake.
C9_ConnectFailedEndsAttempt ==
    (tick.phase \in {"StatusAwaitingConnect", "LoginAwaitingConnect"}
       /\ HasConnectFailed(tick.events)) =>
        /\ Len(tick.emitted) = 1
        /\ tick.emitted[1].type = "Disconnect"
        /\ tick.emitted[1].reason[1] = "Connection failed: "
        /\ Has(tick.events, tick.emitted[1].reason[2])
        /\ login_state = "Idle"
        /\ \A i \in 1..Len(tick.sent) :
              tick.sent[i].name # "HandshakingServerboundSetProtocol"

ScriptPhases == <<"Idle", "StatusAwaitingConnect", "StatusAwaitingResponse",
                  "StatusAwaitingDisconnect", "LoginAwaitingConnect",
                  "LoginAwaitingSuccess", "Play">>

\* C10: a single login request followed by Connected, StatusResponse,
\* Disconnected, Connected and LoginSuccess, one per tick, takes the phase
\* through Idle, StatusAwaitingConnect, StatusAwaitingResponse,
\* StatusAwaitingDisconnect, LoginAwaitingConnect, LoginAwaitingSuccess and
\* Play, with exactly one LoginSuccess event, emitted by the last input, and
\* no Disconnect event.  script_pos counts the inputs of the scenario read
\* so far, the request included; the ticks of the Play phase that follow
\* leave the events as they are.
C10_ScriptedLoginReachesPlay ==
    script_pos \in 1..(Len(Script) + 1) =>
        /\ login_state = ScriptPhases[script_pos + 1]
        /\ tick.phase \in {ScriptPhases[script_pos], login_state}
        /\ WithType(session_events, "Disconnect") = {}
        /\ Cardinality(WithType(session_events, "LoginSuccess"))
             = (IF script_pos = Len(Script) + 1 THEN 1 ELSE 0)
        /\ script_pos = Len(Script) + 1 /\ tick.phase = "LoginAwaitingSuccess" =>
             /\ session_events[1].username = tick.packets[1].str
             /\ session_events[1].uuid = tick.packets[1].num

\* The whole scenario ran.
C10_Witness ==
    /\ script_pos = Len(Script) + 1
    /\ login_state = "Play"
    /\ NamesOf(tick.packets) = <<"LoginClientboundSuccess">>

\* The last tick ran in a phase other than Idle and a Disconnected or
\* ConnectFailed event arrived in it.
ConnectionLostInPhase ==
    /\ tick.phase \in LoginStates \ {"Idle"}
    /\ (Has(tick.events, "Disconnected") \/ HasConnectFailed(tick.events))

\* C11: a Disconnected or ConnectFailed event that arrives in any phase
\* other than Idle ends the exchange in progress, and the phase is
\* eventually Idle again (specification SpecLoginFair).
C11_ConnectionLostReturnsToIdle ==
    [](ConnectionLostInPhase => <>(login_state = "Idle"))

(***************************************************************************)
(* The Play phase (specification SpecPlay).  tick.expired holds the        *)
(* keepalive and ping packets that left the buffers in the last tick       *)
(* without the responder having read them.                                 *)
(***************************************************************************)
\* C12: in Play every inbound keepalive or ping packet is answered, once,
\* by the response of its kind with its id, also when several arrive in
\* one tick's batch: none is dropped.
C12_EveryKeepAliveAnswered ==
    tick.phase = "Play" =>
        /\ tick.expired = <<>>
        /\ Len(tick.sent) <= 1
        /\ \A i \in 1..Len(tick.sent) :
              \E p \in PlayPackets : tick.sent[i] = keep_alive_response(p)
(***************************************************************************)
(* Further properties of the encode path (specification SpecEncode).       *)
(***************************************************************************)
\* The frame of the last encode's packet, as an unbounded buffer holds it.
EncodedFrameLen ==
    Len(VarIntBytes(Len(encode_payload(EncodedIdAndData, epre.threshold))))
      + Len(encode_payload(EncodedIdAndData, epre.threshold))

\* C15: an encode of a Known packet into a buffer too small for its frame,
\* an empty buffer and one too small for the length prefix included,
\* answers Overflow with a new size larger than the buffer, never an error.
C15_TooSmallBufferIsRecoverable ==
    (eres.kind # "None" /\ epre.packet.kind = "Known"
       /\ epre.buflen < EncodedFrameLen) =>
        /\ eres.kind = "Overflow"
        /\ eres.n > epre.buflen

\* C17: with compression off, the bytes written for a Known packet are the
\* varint of the size of id and body, the varint packet id, and the
\* serialized body; the count returned is their number, and decoding them
\* in the packet's state gives the packet back.
C17_UncompressedFrameLayout ==
    (Encoded /\ epre.threshold = None) =>
        /\ eres.written =
              VarIntBytes(Len(VarIntBytes(ShapeOf(epre.packet.name).id))
                            + Len(packet_write(epre.packet)))
                \o VarIntBytes(ShapeOf(epre.packet.name).id)
                \o packet_write(epre.packet)
        /\ eres.n = Len(eres.written)
        /\ decode_packet(epre.version, ShapeOf(epre.packet.name).state,
                         ShapeOf(epre.packet.name).dir, None, eres.written)
             = ROkPacket(Len(eres.written), epre.packet)

\* LoginStart with a two-byte name was written as length 4, id 0, the
\* name's length and the name.
C17_Witness ==
    /\ Encoded /\ epre.threshold = None
    /\ epre.packet = Known("LoginStart", <<<<1, 2>>>>)
    /\ eres.written = <<4, 0, 2, 1, 2>> /\ eres.n = 5

\* C19: after a Handshake went through the codec the compression threshold
\* is None, whatever it was and whatever the next-state field; a field
\* other than 1 and 2 leaves the connection state as it was.
C19_HandshakeResetsThreshold ==
    (epre.packet.kind = "Known" /\ epre.packet.name = "Handshake") =>
        /\ compression_threshold = None
        /\ epre.threshold = None
        /\ epre.packet.f[4][1] \notin {1, 2} => protocol_state = epre.ctx.state

\* A Handshake with next-state 3 went through a codec in Play that had
\* compression on.
C19_Witness ==
    /\ epre.packet.kind = "Known" /\ epre.packet.name = "Handshake"
    /\ epre.packet.f[4][1] = 3
    /\ epre.ctx.threshold = Some(2) /\ epre.ctx.state = "Play"
    /\ compression_threshold = None /\ protocol_state = "Play"

(***************************************************************************)
(* Further properties of the decode path (specification Spec).             *)
(***************************************************************************)
\* The packet id and data of the frame at the head of the decoded buffer:
\* the frame's body, or with compression on what follows the data length,
\* inflated when that length is not zero.
DecodedIdAndData ==
    IF dpre.ctx.threshold = None THEN DecodedBody
    ELSE IF DecodedDataLength.val = 0 THEN DecodedRemaining
    ELSE ZlibDecode(DecodedRemaining).val

WellFramed ==
    /\ CompleteFrame(dpre.buf)
    /\ is_some(dpre.ctx.threshold) =>
          /\ DecodedDataLength.st = "ok" /\ DecodedDataLength.val >= 0
          /\ DecodedDataLength.val > 0 => ZlibDecode(DecodedRemaining).st = "ok"
    /\ VarIntRead(DecodedIdAndData, 0).st = "ok"

DecodedId == VarIntRead(DecodedIdAndData, 0)

\* C16: a well-framed packet whose id the dispatch table does not have for
\* the current state and the clientbound direction decodes to Unknown with
\* that id and the bytes after the id varint as its body; the frame is
\* consumed and the version, state and threshold stay as they were.
C16_UnknownIdKeepsRawBody ==
    (Decoded /\ WellFramed
       /\ Dispatch(dpre.ctx.state, "Clientbound", DecodedId.val) = {}) =>
        /\ dres.kind = "Ok"
        /\ dres.n = FrameLen(dpre.buf)
        /\ dres.packet = Unknown(DecodedId.val,
                                 Slice(DecodedIdAndData, DecodedId.pos,
                                       Len(DecodedIdAndData)))
        /\ CurCtx = dpre.ctx

\* An id the Login table does not have came with two bytes of body.
C16_Witness ==
    /\ Decoded /\ dpre.ctx.state = "Login" /\ dpre.ctx.threshold = None
    /\ dpre.buf = <<3, 1, 2, 128>>
    /\ dres.packet = Unknown(1, <<2, 128>>)

\* The status document holds a version object with an integer protocol.
DocumentHasProtocol(doc) == Len(doc) >= 2 /\ doc[1] = JsonVersion

\* C20: after a StatusResponse was decoded the protocol version is the one
\* its document advertises when the document has one, and otherwise what
\* it was; the connection state and the threshold are what they were; the
\* decode of a StatusResponse frame succeeds whatever its document.
C20_StatusResponseSetsVersion ==
    /\ (dres.kind = "Ok" /\ dres.packet.name = "StatusResponse") =>
          /\ protocol_version =
                (IF DocumentHasProtocol(dres.packet.f[1])
                 THEN dres.packet.f[1][2] ELSE dpre.ctx.version)
          /\ protocol_state = dpre.ctx.state
          /\ compression_threshold = dpre.ctx.threshold
    /\ (Decoded /\ DecodePacketOf(dpre).tag = "Ok"
          /\ DecodePacketOf(dpre).packet.name = "StatusResponse") =>
          /\ dres.kind = "Ok"
          /\ dres.packet = DecodePacketOf(dpre).packet

\* A document without a protocol number left the version where an earlier
\* status response had put it.
C20_Witness ==
    /\ dres.kind = "Ok"
    /\ dres.packet = Known("StatusResponse", <<<<JsonNoProtocol>>>>)
    /\ dpre.ctx.version = 2 /\ protocol_version = 2

(***************************************************************************)
(* The reaction to packets (specifications SpecEncode and Spec).           *)
(***************************************************************************)
SetCompressionNames == {"SetCompression", "SetInitialCompression"}
LoginSuccessNames == {"LoginSuccess_String", "LoginSuccess_UUID"}
ReactingNames ==
    {"Handshake", "StatusResponse"} \cup SetCompressionNames
      \cup LoginSuccessNames

\* C21: after a set-compression or initial-compression packet with
\* threshold n went through the codec the threshold is Some(n), negative n
\* included, and version and state are what they were; under a negative
\* threshold a frame is written uncompressed behind a zero data length.
C21_SetCompressionSetsThreshold ==
    /\ (epre.packet.kind = "Known" /\ epre.packet.name \in SetCompressionNames) =>
          /\ compression_threshold = Some(epre.packet.f[1][1])
          /\ protocol_version = epre.ctx.version
          /\ protocol_state = epre.ctx.state
    /\ (Encoded /\ is_some(epre.threshold) /\ epre.threshold[1] < 0) =>
          EncodedPayload = <<0>> \o EncodedIdAndData

\* A set-compression packet with threshold -1 replaced the threshold 2 and
\* was itself written behind a zero data length.
C21_Witness ==
    /\ Encoded /\ epre.packet = Known("SetCompression", <<<<-1>>>>)
    /\ epre.ctx.threshold = Some(2)
    /\ compression_threshold = Some(-1)
    /\ EncodedPayload[1] = 0

\* C22: after a login-success packet of either variant went through the
\* codec the connection state is Play, whatever it was; and a codec that
\* was in Play has left it only through a Handshake whose next-state is 1
\* or 2.
C22_LoginSuccessEntersPlay ==
    /\ (epre.packet.kind = "Known" /\ epre.packet.name \in LoginSuccessNames) =>
          protocol_state = "Play"
    /\ (epre.ctx.state = "Play" /\ eres.kind # "None"
          /\ protocol_state # "Play") =>
          /\ epre.packet.kind = "Known" /\ epre.packet.name = "Handshake"
          /\ epre.packet.f[4][1] \in {HANDSHAKE_STATUS_NEXT, HANDSHAKE_LOGIN_NEXT}

\* The UUID variant took a codec from Status to Play.
C22_Witness ==
    /\ epre.packet.kind = "Known" /\ epre.packet.name = "LoginSuccess_UUID"
    /\ epre.ctx.state = "Status" /\ protocol_state = "Play"

\* C23: a packet that is none of Handshake, status response, set
\* compression, initial compression and login success, an Unknown packet
\* included, leaves version, state and threshold as they were when it is
\* encoded.
C23_OtherPacketsKeepContext ==
    (eres.kind # "None" /\ epre.packet.name \notin ReactingNames) =>
        CurCtx = epre.ctx

\* A LoginStart was written by a codec in Status with compression on.
C23_Witness ==
    /\ Encoded /\ epre.packet.name = "LoginStart"
    /\ epre.ctx.state = "Status" /\ epre.ctx.threshold = Some(2)
    /\ CurCtx = epre.ctx

\* C23, inbound (specification Spec): the same for a decoded packet.
C23_OtherPacketsKeepContextDecoded ==
    (dres.kind = "Ok" /\ dres.packet.name \notin ReactingNames) =>
        CurCtx = dpre.ctx

\* C24: an encode that answers Overflow or Err leaves version, state and
\* threshold as they were.
C24_FailedEncodeKeepsContext ==
    eres.kind \in {"Overflow", "Err"} => CurCtx = epre.ctx

\* C24, inbound (specification Spec): a decode that answers UnexpectedEnd
\* or an error leaves them as they were.
C24_FailedDecodeKeepsContext ==
    (Decoded /\ dres.kind # "Ok") => CurCtx = dpre.ctx

\* C25: a decoded set-compression packet was framed under the threshold in
\* force before it (decoding the buffer under that threshold gives the
\* packet), and the threshold it carries is in force after the decode.
C25_SetCompressionFramedUnderOldThreshold ==
    (dres.kind = "Ok" /\ dres.packet.name \in SetCompressionNames) =>
        /\ decode_packet(dpre.ctx.version, dpre.ctx.state, "Clientbound",
                         dpre.ctx.threshold, dpre.buf)
             = ROkPacket(dres.n, dres.packet)
        /\ dpre.ctx.threshold = None =>
              VarIntRead(DecodedBody, 0) = ROk(packet_id(dres.packet, 0), 1)
        /\ compression_threshold = Some(dres.packet.f[1][1])

\* An initial-compression packet with threshold 2 came in a frame without a
\* data length and switched compression on.
C25_Witness ==
    /\ dres.kind = "Ok" /\ dres.packet = Known("SetInitialCompression", <<<<2>>>>)
    /\ dpre.ctx.threshold = None /\ dpre.buf = <<2, 3, 2>>
    /\ compression_threshold = Some(2)

\* C25, outbound (specification SpecEncode): a Handshake is written
\* without a data length, whatever the threshold was before it.
C25_HandshakeFramedUncompressed ==
    (Encoded /\ epre.packet.name = "Handshake") =>
        EncodedPayload = EncodedIdAndData

\* C26: an encode of an Unknown packet answers Err, never Overflow,
\* whatever the buffer size and the compression setting, and writes
\* nothing.
C26_UnknownPacketIsNotEncoded ==
    (eres.kind # "None" /\ epre.packet.kind = "Unknown") =>
        /\ eres.kind = "Err"
        /\ eres.written = <<>>

\* An Unknown packet was handed to a codec with compression on and an
\* empty buffer.
C26_Witness ==
    /\ epre.packet = Unknown(1, <<1>>) /\ epre.buflen = 0
    /\ is_some(epre.threshold) /\ eres.kind = "Err"

\* The bytes after the packet id, and what the shape the id selects reads
\* from them.
DecodedData == Slice(DecodedIdAndData, DecodedId.pos, Len(DecodedIdAndData))
DecodedShape ==
    CHOOSE e \in Dispatch(dpre.ctx.state, "Clientbound", DecodedId.val) : TRUE
DecodedFields == ReadFields(DecodedShape.layout, DecodedData, 0, <<>>)

\* C27: a well-framed packet whose shape reads its fields from the bytes
\* after the id decodes to that Known packet, also when bytes are left
\* over behind the fields; the whole frame is consumed, so the bytes left
\* over do not stay in the buffer.
C27_LeftoverBytesAreDropped ==
    (Decoded /\ WellFramed
       /\ Dispatch(dpre.ctx.state, "Clientbound", DecodedId.val) # {}
       /\ DecodedFields.st = "ok") =>
        /\ dres.kind = "Ok"
        /\ dres.packet = Known(DecodedShape.name, DecodedFields.val)
        /\ dres.n = FrameLen(dpre.buf)
        /\ rbuf = Slice(dpre.buf, FrameLen(dpre.buf), Len(dpre.buf))

\* A login disconnect with an empty reason came with one byte behind it.
C27_Witness ==
    /\ dres.kind = "Ok" /\ dres.packet = Known("LoginDisconnect", <<<<>>>>)
    /\ dpre.buf = <<3, 0, 0, 1>> /\ dpre.ctx.threshold = None
    /\ DecodedFields.pos < Len(DecodedData)
    /\ dres.n = 4 /\ rbuf = <<>>

(***************************************************************************)
(* The end of the login exchange (specification SpecLogin).                *)
(***************************************************************************)
LoginOutcomeNames == {"LoginClientboundSuccess", "LoginClientboundDisconnect"}

\* Packet i of the last tick's batch is the first login success or login
\* disconnect in it.
FirstLoginOutcome(i) ==
    /\ i \in 1..Len(tick.packets)
    /\ tick.packets[i].name \in LoginOutcomeNames
    /\ \A j \in 1..(i - 1) : tick.packets[j].name \notin LoginOutcomeNames

\* C28: in LoginAwaitingSuccess a login disconnect gives one Disconnect
\* event with the server's reason, no LoginSuccess event and no packet
\* sent, and the phase becomes Idle; the packets behind it in the batch
\* add nothing.
C28_LoginDisconnectEndsAttempt ==
    \A i \in 1..MaxBatch + 1 :
        (tick.phase = "LoginAwaitingSuccess" /\ FirstLoginOutcome(i)
           /\ tick.packets[i].name = "LoginClientboundDisconnect") =>
            /\ tick.emitted =
                  <<DisconnectEvent("Login disconnect: ", tick.packets[i].str)>>
            /\ tick.sent = <<>>
            /\ login_state = "Idle"

\* A login disconnect came with a login success behind it.
C28_Witness ==
    /\ tick.phase = "LoginAwaitingSuccess"
    /\ NamesOf(tick.packets)
         = <<"LoginClientboundDisconnect", "LoginClientboundSuccess">>
    /\ Len(tick.emitted) = 1 /\ tick.emitted[1].type = "Disconnect"
    /\ login_state = "Idle"

\* C29: in LoginAwaitingSuccess the first login success gives one
\* login-acknowledged packet and one LoginSuccess event with the username
\* and the session id the server sent, and the phase becomes Play; a second
\* login success or a login disconnect behind it adds nothing.
C29_FirstLoginSuccessEntersPlay ==
    \A i \in 1..MaxBatch + 1 :
        (tick.phase = "LoginAwaitingSuccess" /\ FirstLoginOutcome(i)
           /\ tick.packets[i].name = "LoginClientboundSuccess") =>
            /\ tick.sent = <<OutPacket("LoginServerboundLoginAcknowledged", 0, 0, "")>>
            /\ tick.emitted =
                  <<LoginSuccessEvent(tick.packets[i].str, tick.packets[i].num)>>
            /\ login_state = "Play"

\* Alice's login success came with Bob's behind it.
C29_Witness ==
    /\ tick.phase = "LoginAwaitingSuccess"
    /\ tick.packets = <<InPacket("LoginClientboundSuccess", "Alice", 4660),
                        InPacket("LoginClientboundSuccess", "Bob", 22136)>>
    /\ tick.emitted = <<LoginSuccessEvent("Alice", 4660)>>
    /\ login_state = "Play"

(***************************************************************************)
(* Kicks in the Play phase (specification SpecPlay).                       *)
(***************************************************************************)
KickNames == {"PlayClientboundKickDisconnect",
              "ConfigurationClientboundDisconnect"}
KicksOf(packets) == SelectSeq(packets, LAMBDA p : p.name \in KickNames)

\* C30: a tick in Play writes one Disconnect event for every play-scoped
\* kick and every configuration-scoped disconnect of its batch, in their
\* order and with their reasons, and no other event; the phase stays Play.
C30_KickGivesDisconnectEvent ==
    tick.phase = "Play" =>
        /\ Len(tick.emitted) = Len(KicksOf(tick.packets))
        /\ \A i \in 1..Len(tick.emitted) :
              /\ tick.emitted[i].type = "Disconnect"
              /\ tick.emitted[i].reason[2] = KicksOf(tick.packets)[i].str
        /\ login_state = "Play"

\* A kick and a configuration disconnect came in one batch.
C30_Witness ==
    /\ tick.phase = "Play" /\ login_state = "Play"
    /\ NamesOf(tick.packets) = <<"PlayClientboundKickDisconnect",
                                 "ConfigurationClientboundDisconnect">>
    /\ Len(tick.emitted) = 2

(***************************************************************************)
(* Properties of the chunk section bitmask decoder (specification          *)
(* SpecChunk).                                                             *)
(***************************************************************************)
ChunkComputed == chunk_mask # NoMask

\* The payload is whole sections and nothing else.
WholeSectionsOnly == chunk_layout.cut = 0 /\ chunk_layout.stray = 0

\* C13: for a payload of exactly n whole sections and nothing else, with
\* 1 <= n <= SECTIONS_PER_CHUNK, compute_section_bitmask returns Ok with
\* exactly the low n bits set; and whatever the payload, a bitmask it
\* returns is of the form 2^k - 1.
C13_LowBitsOfWholeSections ==
    ChunkComputed =>
        /\ (WholeSectionsOnly /\ chunk_layout.whole \in 1..SECTIONS_PER_CHUNK) =>
               /\ chunk_mask.st = "ok"
               /\ chunk_mask.bitmask = Pow2(chunk_layout.whole) - 1
        /\ chunk_mask.st = "ok" =>
               \E k \in 0..SECTIONS_PER_CHUNK : chunk_mask.bitmask = Pow2(k) - 1

\* Three whole sections of two kinds gave 0b111.
C13_Witness ==
    /\ ChunkComputed /\ WholeSectionsOnly
    /\ chunk_layout.whole = 3 /\ chunk_layout.last > 1
    /\ chunk_mask = MaskOk(7, 0)

FixedWidthReads == {"read_i16", "read_u8", "read_u64"}

\* C14: on a payload cut in the middle of a section the decoder fails only
\* where a fixed-width read (the 2-byte field, the bits-per-block byte or
\* an 8-byte data word) cannot be satisfied, and otherwise returns the bits
\* of the sections before the cut; stray bytes after whole sections never
\* make it fail.
C14_ErrorOnlyFromFixedWidthRead ==
    ChunkComputed =>
        /\ chunk_layout.cut > 0 =>
              \/ chunk_mask.st = "err" /\ chunk_mask.at \in FixedWidthReads
              \/ chunk_mask.st = "ok"
                 /\ chunk_mask.bitmask = Pow2(chunk_layout.whole) - 1
        /\ (chunk_layout.stray > 0 /\ chunk_layout.whole >= 1) =>
              chunk_mask.st = "ok"


(***************************************************************************)
(* Properties of AlwaysSuccessfulLoginPlugin (specification SpecServer).   *)
(***************************************************************************)
\* C18: once a login request has been made there is exactly one
\* LoginSuccess event, it carries the username of the first request, and
\* the server state is Play; requests after the first, in the same tick or
\* later, add no event.
C18_FirstLoginAnsweredOnce ==
    server_logins # <<>> =>
        /\ server_state = "Play"
        /\ Len(server_success) = 1
        /\ server_success[1].username = server_logins[1].username


(***************************************************************************)
(* C31.  The session phase only ever changes to the phase that follows it  *)
(* in the order Idle, StatusAwaitingConnect, StatusAwaitingResponse,       *)
(* StatusAwaitingDisconnect, LoginAwaitingConnect, LoginAwaitingSuccess,   *)
(* Play, or to Idle: no phase is skipped and the only step backwards is    *)
(* the reset to Idle, whatever events, packets and requests a tick brings. *)
(***************************************************************************)
PhaseOrder == <<"Idle", "StatusAwaitingConnect", "StatusAwaitingResponse",
                "StatusAwaitingDisconnect", "LoginAwaitingConnect",
                "LoginAwaitingSuccess", "Play">>
PhaseIndex(state) == CHOOSE i \in 1..Len(PhaseOrder) : PhaseOrder[i] = state

C31_PhaseStepsForwardOrResets ==
    [][\/ login_state' = login_state
       \/ login_state' = "Idle"
       \/ PhaseIndex(login_state') = PhaseIndex(login_state) + 1]_vars

\* A tick of LoginAwaitingConnect that saw both a Connected and a
\* ConnectFailed event, and reset the phase to Idle.
C31_Witness ==
    /\ tick.phase = "LoginAwaitingConnect"
    /\ Has(tick.events, "Connected")
    /\ HasConnectFailed(tick.events)
    /\ login_state = "Idle"


(***************************************************************************)
(* C32.  In LoginAwaitingConnect a tick whose batch holds a Connected      *)
(* event sends exactly one Handshake with next-state Login followed by     *)
(* exactly one login-start packet, which carries the username of the login *)
(* request that started the attempt (the request whose server the first    *)
(* connection of the attempt went to); more Connected events in the batch  *)
(* send nothing more.  When the batch holds no ConnectFailed event, the    *)
(* phase becomes LoginAwaitingSuccess.                                      *)
(***************************************************************************)
C32_ConnectedSendsHandshakeAndLoginStart ==
    (tick.phase = "LoginAwaitingConnect" /\ Has(tick.events, "Connected")) =>
        /\ Len(tick.sent) = 2
        /\ tick.sent[1].name = "HandshakingServerboundSetProtocol"
        /\ tick.sent[1].next = HANDSHAKE_LOGIN_NEXT
        /\ tick.sent[2].name = "LoginServerboundLoginStart"
        /\ tick.sent[2].str = login_resource.username
        /\ Login(connects[1], tick.sent[2].str) \in LoginRequests
        /\ ~HasConnectFailed(tick.events) => login_state = "LoginAwaitingSuccess"

\* A batch of two Connected events was answered by one pair of packets.
C32_Witness ==
    /\ tick.phase = "LoginAwaitingConnect"
    /\ tick.events = <<"Connected", "Connected">>
    /\ Len(tick.sent) = 2
    /\ tick.sent[2].str = "Bob"
    /\ login_state = "LoginAwaitingSuccess"

(***************************************************************************)
(* C33.  The login-phase Handshake carries the protocol version of the     *)
(* codec context.  That version changes only in a tick whose packets hold  *)
(* a status response with a protocol number, to the number of the last     *)
(* such response; a status response that does not parse leaves it as it    *)
(* was.  Connection state and compression threshold change in a tick only  *)
(* as the codec's reaction to a packet it decoded or encoded: the systems  *)
(* of the orchestrator write none of the three.                            *)
(***************************************************************************)
ParsedVersions(packets) ==
    SelectSeq(packets, LAMBDA p : p.name = "StatusClientboundServerInfo"
                                  /\ get_server_protocol_version(p.str).ok)

FinishRead ==
    FirstIndex(NamesOf(config_tick.visible),
               {"ConfigurationClientboundFinishConfiguration"})

\* C34: when the batch the configuration handler reads in a tick of Play
\* holds a finish-configuration packet, the handler sends for it the finish
\* acknowledgment, the play-scoped settings and the player-loaded signal, in
\* this order and as the last packets it sends in the tick (before them at
\* most the configuration settings not yet sent); it leaves finished = true,
\* started = false and sent_settings = false; and it reads no packet that
\* follows the finish packet in the batch.
C34_FinishConfigurationIsAnswered ==
    (config_tick.ran /\ FinishRead # 0) =>
        /\ Len(config_tick.responses) = FinishRead
        /\ config_tick.responses[FinishRead] \in
              {FinishResponses,
               <<OutPacket("ConfigurationServerboundSettings", 0, 0, "")>>
                   \o FinishResponses}
        /\ NamesOf(FinishResponses) =
              <<"ConfigurationServerboundFinishConfiguration",
                "PlayServerboundSettings", "PlayServerboundPlayerLoaded">>
        /\ config_state.finished /\ ~config_state.started
        /\ ~config_state.sent_settings

\* A finish packet with a known-packs packet behind it: only the finish
\* packet was answered.
C34_Witness ==
    /\ login_state = "Play" /\ config_tick.ran
    /\ NamesOf(config_tick.visible) =
          <<"ConfigurationClientboundFinishConfiguration",
            "ConfigurationClientboundSelectKnownPacks">>
    /\ Len(config_tick.responses) = 1
    /\ Len(config_tick.responses[1]) = 4
    /\ config_state.finished

StartsRead ==
    {i \in 1..Len(config_tick.responses) :
        config_tick.visible[i].name = "PlayClientboundStartConfiguration"}

\* C35: in a configuration exchange (from a start-configuration signal, or
\* from the first packet answered after the exchange before it ended, up to
\* the finish acknowledgment) the configuration-scoped settings packet is
\* the first configuration-scoped packet the handler sends and is sent once:
\* the known-packs echo, the cookie response and the finish acknowledgment
\* all come after it.  A start-configuration signal is answered by the
\* settings packet alone, whatever went before, and when no finish packet
\* is read after it in the tick the finished flag is clear.
C35_SettingsOncePerExchange ==
    /\ config_exchange # <<>> =>
          /\ config_exchange[1].name = "ConfigurationServerboundSettings"
          /\ \A i \in 2..Len(config_exchange) :
                config_exchange[i].name # "ConfigurationServerboundSettings"
    /\ \A i \in StartsRead :
          /\ config_tick.responses[i] =
                <<OutPacket("ConfigurationServerboundSettings", 0, 0, "")>>
          /\ FinishRead = 0 => ~config_state.finished

\* Configuration was complete, and a start-configuration signal with a
\* known-packs packet behind it began a new exchange.
C35_Witness ==
    /\ config_tick.ran /\ config_tick.before.finished
    /\ NamesOf(config_tick.visible) =
          <<"PlayClientboundStartConfiguration",
            "ConfigurationClientboundSelectKnownPacks">>
    /\ NamesOf(config_exchange) =
          <<"ConfigurationServerboundSettings",
            "ConfigurationServerboundSelectKnownPacks">>
    /\ ~config_state.finished

(***************************************************************************)
(* C36 (specification SpecTickEndFair).  A tick-end packet goes out only   *)
(* in a tick of the Play phase in which configuration is marked complete   *)
(* (when the tick begins or when it ends); two tick-end packets in a row   *)
(* are more than the interval of one second apart; and as long as          *)
(* configuration stays complete and time passes, another tick-end follows  *)
(* (up to the last instant the model reaches).                             *)
(***************************************************************************)
TickEndOnlyWhenConfigured ==
    (config_tick.ran /\ config_tick.tick_end) =>
        /\ login_state = "Play"
        /\ config_tick.before.finished \/ config_state.finished

TickEndsApart ==
    \A i \in 1..(Len(tick_end_times) - 1) :
        tick_end_times[i + 1] - tick_end_times[i] > TICK_END_INTERVAL

C36_TickEndPacedWhileConfigured ==
    /\ [](TickEndOnlyWhenConfigured /\ TickEndsApart)
    /\ \A n \in 0..MaxElapsed :
          (/\ config_state.finished
           /\ Len(tick_end_times) = n
           /\ elapsed_secs + TICK_END_INTERVAL < MaxElapsed)
              ~> (~config_state.finished \/ Len(tick_end_times) > n)

\* Two tick-ends have gone out, the second in the last tick.
C36_Witness ==
    /\ config_tick.tick_end /\ config_state.finished
    /\ Len(tick_end_times) = 2
    /\ tick_end_times[2] - tick_end_times[1] = TICK_END_INTERVAL + 1

(***************************************************************************)
(* C37 (specification SpecLogin).  For one login request at most two       *)
(* connections are opened, both to the address of the request: one for     *)
(* discovery and, on the server's disconnect in StatusAwaitingDisconnect,  *)
(* one for login, also when the batch of that tick holds more than one     *)
(* Disconnected event.                                                     *)
(***************************************************************************)
C37_AtMostTwoConnections ==
    /\ Len(connects) <= 2
    /\ \A i \in 1..Len(connects) : connects[i] = login_resource.server_addr
    /\ (tick.phase = "StatusAwaitingDisconnect" /\ Has(tick.events, "Disconnected")) =>
          /\ tick.opened = <<login_resource.server_addr>>
          /\ Len(connects) = 2

(***************************************************************************)
(* C38 (specification SpecGame).  The GameState of the session layer goes  *)
(* from Idle to Login at startup, with one Login request written; it       *)
(* becomes Play only in a tick that observed a LoginSuccess; a tick of     *)
(* Login or Play that observed a Disconnect leaves it Idle, also when the  *)
(* tick observed a LoginSuccess as well, and with exit_on_disconnect set   *)
(* writes one AppExit, which no other tick does.                           *)
(***************************************************************************)
C38_GameStateFollowsSessionEvents ==
    /\ game_state = "Idle" /\ ~game_tick.ran => Len(login_events) = 0
    /\ game_state # "Idle" \/ game_tick.ran =>
          login_events = <<Login(login_info.server, login_info.username)>>
    /\ (game_tick.ran /\ game_tick.state = "Login" /\ game_state = "Play") =>
          game_tick.successes # <<>>
    /\ (game_tick.ran /\ game_tick.disconnects # <<>>) =>
          /\ game_state = "Idle"
          /\ app_exit = IF login_info.exit_on_disconnect THEN 1 ELSE 0
    /\ (game_tick.ran /\ game_tick.disconnects = <<>>) => app_exit = 0

(***************************************************************************)
(* C39 (specification SpecChunk).  compute_section_bitmask terminates:     *)
(* every pass of its loop but the last parses, the last either fails (and  *)
(* the result is the error) or parses; a pass that parses moves the cursor *)
(* on by at least 3 bytes, to where the next pass starts; a section whose  *)
(* palette length and data-array length are negative is read as having no  *)
(* palette entries and no data words; and there are at most                *)
(* SECTIONS_PER_CHUNK passes.                                              *)
(***************************************************************************)
\* The bytes at pos are a section with negative lengths.
NegativeLengthsAt(pos) ==
    /\ pos + Len(Sections[1]) <= Len(chunk_bytes)
    /\ Slice(chunk_bytes, pos, pos + Len(Sections[1])) = Sections[1]

LastPassFailed ==
    chunk_passes # <<>> /\ chunk_passes[Len(chunk_passes)].st # "ok"

C39_LoopAdvancesAndIsCapped ==
    ChunkComputed =>
        /\ Len(chunk_passes) <= SECTIONS_PER_CHUNK
        /\ (chunk_mask.st = "err") = LastPassFailed
        /\ \A i \in DOMAIN chunk_passes :
              /\ i < Len(chunk_passes) =>
                    /\ chunk_passes[i].st = "ok"
                    /\ chunk_passes[i + 1].start =
                           chunk_passes[i].start + chunk_passes[i].consumed
              /\ chunk_passes[i].st = "ok" =>
                    /\ chunk_passes[i].consumed >= 3
                    /\ chunk_passes[i].start + chunk_passes[i].consumed
                           <= Len(chunk_bytes)
              /\ NegativeLengthsAt(chunk_passes[i].start) =>
                    /\ chunk_passes[i].st = "ok"
                    /\ chunk_passes[i].consumed = Len(Sections[1])

\* Seventeen sections, the first with negative lengths: sixteen passes,
\* all parsed, and the bytes of the seventeenth left over.
C39_Witness ==
    /\ ChunkComputed
    /\ chunk_layout.whole = SECTIONS_PER_CHUNK + 1
    /\ NegativeLengthsAt(0) /\ chunk_layout.last > 1
    /\ Len(chunk_passes) = SECTIONS_PER_CHUNK
    /\ chunk_mask.st = "ok" /\ chunk_mask.remaining > 0

(***************************************************************************)
(* C40 (specification SpecChunk).  A bitmask compute_section_bitmask       *)
(* returns has bit i set exactly for the sections i it parsed, all of them *)
(* below SECTIONS_PER_CHUNK (itself below 32), and no bit at or above      *)
(* SECTIONS_PER_CHUNK; and when bytes remain after the last section it     *)
(* parsed, at the cap or before it, the result is Ok with the bits of the  *)
(* sections parsed and those bytes left over.                              *)
(***************************************************************************)
ParsedSections ==
    Cardinality({i \in DOMAIN chunk_passes : chunk_passes[i].st = "ok"})

\* The cursor after the last section that parsed.
EndOfParsed ==
    IF ParsedSections = 0 THEN 0
    ELSE chunk_passes[ParsedSections].start
            + chunk_passes[ParsedSections].consumed

BitSet(bitmask, i) == (bitmask \div Pow2(i)) % 2 = 1

\* The bits of an Ok result are those of the sections parsed.
BitsOfParsedSections ==
    (ChunkComputed /\ chunk_mask.st = "ok") =>
        /\ chunk_mask.bitmask < Pow2(SECTIONS_PER_CHUNK)
        /\ ParsedSections <= SECTIONS_PER_CHUNK
        /\ \A i \in 0..(SECTIONS_PER_CHUNK - 1) :
              BitSet(chunk_mask.bitmask, i) = (i < ParsedSections)

BytesAfterParsed == ParsedSections >= 1 /\ EndOfParsed < Len(chunk_bytes)

C40_BitsOfParsedSectionsAndLeftover ==
    /\ BitsOfParsedSections
    /\ (ChunkComputed /\ BytesAfterParsed) =>
          chunk_mask = MaskOk(Pow2(ParsedSections) - 1,
                              Len(chunk_bytes) - EndOfParsed)
=============================================================================
